---- MODULE Spec2Model ----
(***************************************************************************)
(* Model of the stream Manager of mavlink-camera-manager                   *)
(* (src/src/stream/manager.rs) together with the sinks it drives           *)
(* (src/src/stream/sink/rtsp_sink.rs).                                     *)
(*                                                                         *)
(* The Manager is a process-wide registry behind one Mutex.  Every public  *)
(* function is executed by a caller thread; a function is cut into steps   *)
(* exactly at the places where the Mutex is taken or dropped and where the *)
(* code blocks, so that the interleavings of concurrent callers are the    *)
(* ones the code allows.                                                   *)
(***************************************************************************)
EXTENDS Integers, FiniteSets, Sequences, TLC

(***************************************************************************)
(* Bounds                                                                  *)
(***************************************************************************)
\* Streams built, sessions requested and calls started in one run: by two
\* concurrent callers (MaxCalls), by a single caller (MaxSeqCalls).
MaxStreams == 2
MaxSessions == 1
MaxCalls == 3
MaxSeqCalls == 4
MaxBootCalls == 2
MaxNameCalls == 4

\* Endpoints of one stream request handed to the stream backend.
MaxEndpoints == 2

\* Largest width and height handed to FilePipeline::try_new.
MaxDimension == 4

\* Discovery rounds of the ONVIF loop.
MaxRounds == 3

\* Pipelines whose element names are looked at.
MaxPipelineIds == 3

\* Restarts of the runner's pipeline, and the other bus messages of one run.
MaxRestarts == 4
MaxMessages == 3

\* Two concurrent callers; two stream names; two host:port pairs.
Threads == {1, 2}
Names == {"A", "B"}
Endpoints == {1, 2}

StreamIds == 1..MaxStreams
SessionIds == 1..MaxSessions

(***************************************************************************)
(* Data model                                                              *)
(***************************************************************************)
\* The RTSP server listens on one port: the host:port pair of every rtsp
\* endpoint.
RtspEndpoint == CHOOSE e \in Endpoints : \A x \in Endpoints : x <= e

\* VideoAndStreamInformation: a name and the endpoints (host:port pairs)
\* sharing one scheme; an rtsp stream has exactly one endpoint.
Infos ==
    { i \in [name : Names, endpoints : SUBSET Endpoints, scheme : {"udp", "rtsp"}] :
         /\ i.endpoints # {}
         /\ i.scheme = "rtsp" => i.endpoints = {RtspEndpoint} }

NoInfo == [name |-> "", endpoints |-> {}, scheme |-> ""]

\* The sink a stream is built with is keyed by its own uuid, distinct from
\* every session id.
EndpointSinkId(id) == 0 - id

SinkIds == SessionIds \cup {EndpointSinkId(id) : id \in StreamIds}

\* The path an RtspSink serves: the path of its (single) rtsp endpoint.
RtspPath(info) == CHOOSE e \in info.endpoints : TRUE

NoStream == [id |-> 0]

\* A call: the function, its arguments, its result, and whether it repeats
\* the call the same thread made just before, which returned Ok.
NoArg == [kind |-> "", parses |-> FALSE]

NoCall == [op |-> "none", info |-> NoInfo, id |-> 0, sid |-> 0, arg |-> NoArg,
           res |-> "none", again |-> FALSE]

\* start_default is not running: no stream loaded, none left to add, none in
\* the loop's hands, no error logged.
NoBoot == [active |-> FALSE, loaded |-> {}, valid |-> {}, pending |-> {},
           stream |-> NoInfo, failed |-> {}]

\* No component is run on its own.
NoUnit == [req |-> NoArg, res |-> NoArg]

VARIABLES
    streams,      \* Manager.streams: stream id -> Stream
    settings,     \* the stream set last handed to settings::manager::set_streams
    lock,         \* holder of the MANAGER Mutex, 0 when free
    pc,           \* program point of every caller thread
    call,         \* the call a thread is executing (or has just finished) and its result
    calls,        \* number of calls the callers may still start
    local,        \* the Stream a thread owns in a local variable (built, or taken out)
    todo,         \* sinks of the local stream the unlink loop has not visited yet
    warned,       \* sinks whose unlink error the thread's teardown has logged
    sessions,     \* signalling side of every WebRTC session
    rtsp,         \* paths served by the RTSP server singleton
    nextId,       \* next fresh stream uuid
    nextSession,  \* next fresh session uuid
    held,         \* sinks a caller of the Sink interface holds outside any sinks map
    boot,         \* start_default: whether it is running, and the streams it has yet to add
    unit          \* a component run on its own: the request it was given and what it made of it

vars == <<streams, settings, lock, pc, call, calls, local, todo,
          warned, sessions, rtsp, nextId, nextSession, held, boot, unit>>

\* The state of the stream Manager and of what it owns.
manager_vars == <<streams, settings, lock, pc, call, calls, local, todo,
                  warned, sessions, rtsp, nextId, nextSession, held, boot>>

(***************************************************************************)
(* Helpers on maps                                                         *)
(***************************************************************************)
MapRemove(f, k) == [x \in DOMAIN f \ {k} |-> f[x]]

MapInsert(f, k, v) == [x \in DOMAIN f \cup {k} |-> IF x = k THEN v ELSE f[x]]

EmptyMap == [x \in {} |-> 0]

(***************************************************************************)
(* Settings bridge                                                         *)
(***************************************************************************)
\* The vector of informations of the registered streams, order irrelevant:
\* a bag (information -> number of streams carrying it).
InfoBag(reg) ==
    [i \in {reg[id].info : id \in DOMAIN reg} |->
        Cardinality({id \in DOMAIN reg : reg[id].info = i})]

\* A bridge that is handed an empty vector whatever the registry holds.
update_settings_Empty(reg) == InfoBag(EmptyMap)

\* Manager::update_settings: set_streams(informations of streams.values()).
update_settings(reg) == InfoBag(reg)

(***************************************************************************)
(* Conflict rule                                                           *)
(***************************************************************************)
conflicts_with(a, b) ==
    \/ a.name = b.name
    \/ a.endpoints \cap b.endpoints # {}

(***************************************************************************)
(* Sinks                                                                   *)
(***************************************************************************)
NewSink(kind, path) == [kind |-> kind, tee_src_pad |-> FALSE, path |-> path]

\* Outcome of a fallible sequence of framework calls: 0 when every call
\* succeeds, k when the k-th fallible call returns an error.
LinkOutcomes == 0..5
UnlinkOutcomes == 0..6

\* RtspSink::link on stream st (its pipeline and sinks) for sink `sink` with
\* id sid, the tee pad already requested by the caller.  `guarded`: the
\* check of the pad already stored is made.
RtspSinkLink(sid, sink, st, srv, f, guarded) ==
    IF guarded /\ sink.tee_src_pad
    THEN [sink |-> sink, st |-> st, rtsp |-> srv, ok |-> FALSE]
    ELSE
      LET s0 == [sink EXCEPT !.tee_src_pad = TRUE] IN
      IF f = 1   \* pipeline.add_many
      THEN [sink |-> s0, st |-> st, rtsp |-> srv, ok |-> FALSE]
      ELSE
        LET p1 == [st EXCEPT !.elements = @ \cup {sid}] IN
        IF f = 2   \* tee_src_pad.link: the elements are removed again
        THEN [sink |-> s0, st |-> st, rtsp |-> srv, ok |-> FALSE]
        ELSE IF f = 5   \* tee_src_pad.link, and then pipeline.remove_many
        THEN [sink |-> s0, st |-> p1, rtsp |-> srv, ok |-> FALSE]
        ELSE
          LET p2 == [p1 EXCEPT !.linked = @ \cup {sid}] IN
          IF f = 3   \* RTSPServer::add_pipeline
          THEN [sink |-> s0, st |-> p2, rtsp |-> srv, ok |-> FALSE]
          ELSE IF f = 4   \* RTSPServer::start_pipeline
          THEN [sink |-> s0, st |-> p2, rtsp |-> srv, ok |-> FALSE]
          ELSE [sink |-> s0, st |-> p2, rtsp |-> srv \cup {sink.path}, ok |-> TRUE]

\* A link that does not look at the pad already stored.
RtspSink_link_Unguarded(sid, sink, st, srv, f) ==
    RtspSinkLink(sid, sink, st, srv, f, FALSE)

\* if self.tee_src_pad.is_some() { return Err(..) }
RtspSink_link(sid, sink, st, srv, f) == RtspSinkLink(sid, sink, st, srv, f, TRUE)

\* The error of a failed link, after the call that failed.
LinkError(sink, f) ==
    IF sink.tee_src_pad THEN "AlreadyLinked"
    ELSE IF f = 1 THEN "AddFailed"
    ELSE IF f \in {2, 5} THEN "LinkFailed"
    ELSE "ServerError"

\* RtspSink::unlink.  It takes &self: the stored pad is never cleared.
\* `guarded`: a sink without a stored pad is left alone.
RtspSinkUnlink(sid, st, srv, f, guarded) ==
    LET sink == st.sinks[sid] IN
    IF guarded /\ ~sink.tee_src_pad
    THEN [st |-> st, rtsp |-> srv, ok |-> TRUE]
    ELSE IF f = 1   \* tee_src_pad.unlink
    THEN [st |-> st, rtsp |-> srv, ok |-> FALSE]
    ELSE
      LET p1 == [st EXCEPT !.linked = @ \ {sid}] IN
      IF f = 2   \* pipeline.remove_many
      THEN [st |-> p1, rtsp |-> srv, ok |-> FALSE]
      ELSE
        LET p2 == [p1 EXCEPT !.elements = @ \ {sid}] IN
        IF f \in {3, 4, 5}   \* queue.set_state, pipeline.by_name, tee.remove_pad
        THEN [st |-> p2, rtsp |-> srv, ok |-> FALSE]
        ELSE
          LET p3 == [p2 EXCEPT !.tee_pads = @ \ {sid}] IN
          IF f = 6   \* RTSPServer::stop_pipeline
          THEN [st |-> p3, rtsp |-> srv, ok |-> FALSE]
          ELSE [st |-> p3, rtsp |-> srv \ {sink.path}, ok |-> TRUE]

\* An unlink that goes through its steps without a stored pad.
RtspSink_unlink_Unguarded(sid, st, srv, f) == RtspSinkUnlink(sid, st, srv, f, FALSE)

\* let Some(tee_src_pad) = &self.tee_src_pad else { return Ok(()) }
RtspSink_unlink(sid, st, srv, f) == RtspSinkUnlink(sid, st, srv, f, TRUE)

\* link of the sink variants whose code is not part of the sources (UDP,
\* WebRTC), after the Sink contract: AlreadyLinked, AddFailed, LinkFailed or
\* success, the pad reference stored on success only.
SpecSink_link(sid, sink, st, f) ==
    IF sink.tee_src_pad \/ f \in {1, 2, 5}
    THEN [sink |-> sink, st |-> st, ok |-> FALSE]
    ELSE [sink |-> [sink EXCEPT !.tee_src_pad = TRUE],
          st |-> [st EXCEPT !.elements = @ \cup {sid}, !.linked = @ \cup {sid}],
          ok |-> TRUE]

\* unlink of those variants, after the Sink contract: a no-op when never
\* linked; otherwise unlink the pad, remove the elements, drive them to Null
\* and release the pad; no pad is referenced after success.
SpecSink_unlink(sid, st, f) ==
    LET sink == st.sinks[sid] IN
    IF ~sink.tee_src_pad
    THEN [st |-> st, ok |-> TRUE]
    ELSE IF f = 1
    THEN [st |-> st, ok |-> FALSE]
    ELSE
      LET p1 == [st EXCEPT !.linked = @ \ {sid}] IN
      IF f = 2
      THEN [st |-> p1, ok |-> FALSE]
      ELSE
        LET p2 == [p1 EXCEPT !.elements = @ \ {sid}] IN
        IF f \in {3, 4, 5}
        THEN [st |-> p2, ok |-> FALSE]
        ELSE [st |-> [p2 EXCEPT !.tee_pads = @ \ {sid},
                                !.sinks[sid].tee_src_pad = FALSE],
              ok |-> TRUE]

\* A WebRTC sink that is unlinked ends its session: EndSession goes out on
\* the session's channel and the session is Closed.
EndSession(sess, sid) ==
    IF sid \in DOMAIN sess /\ sess[sid].state # "Closed"
    THEN [sess EXCEPT ![sid].state = "Closed",
                      ![sid].outbox = Append(@, "EndSession")]
    ELSE sess

\* Sink::unlink, dispatching on the variant.
Sink_unlink(sid, st, srv, sess, f) ==
    LET kind == st.sinks[sid].kind IN
    IF kind = "rtsp"
    THEN LET r == RtspSink_unlink(sid, st, srv, f) IN
         [st |-> r.st, rtsp |-> r.rtsp, sessions |-> sess, ok |-> r.ok]
    ELSE LET r == SpecSink_unlink(sid, st, f) IN
         [st |-> r.st, rtsp |-> srv,
          sessions |-> IF kind = "webrtc" THEN EndSession(sess, sid) ELSE sess,
          ok |-> r.ok]

(***************************************************************************)
(* Stream                                                                  *)
(***************************************************************************)
\* A pipeline that was built and set to play, with no sink yet.
NewPipeline(id, info) ==
    [id |-> id, info |-> info, state |-> "Playing", eos |-> FALSE,
     tee_pads |-> {}, linked |-> {}, elements |-> {}, sinks |-> EmptyMap]

\* Sink::link, dispatching on the variant.
Sink_link(sid, sink, st, srv, f) ==
    IF sink.kind = "rtsp"
    THEN RtspSink_link(sid, sink, st, srv, f)
    ELSE LET q == SpecSink_link(sid, sink, st, f) IN
         [sink |-> q.sink, st |-> q.st, rtsp |-> srv, ok |-> q.ok]

\* Pipeline add_sink: request a pad of the tee, link the sink, release the
\* pad again when the link fails, insert the sink when it succeeds.
add_sink(sid, sink, st, srv, f) ==
    LET pad == [st EXCEPT !.tee_pads = @ \cup {sid}]
        r == Sink_link(sid, sink, pad, srv, f)
    IN IF r.ok
       THEN [st |-> [r.st EXCEPT !.sinks = MapInsert(@, sid, r.sink)],
             rtsp |-> r.rtsp, ok |-> TRUE]
       ELSE [st |-> [r.st EXCEPT !.tee_pads = @ \ {sid}],
             rtsp |-> r.rtsp, ok |-> FALSE]

\* Stream::try_new: the pipeline and the sink of the endpoints' scheme.
Stream_try_new(id, info, srv, f) ==
    add_sink(EndpointSinkId(id),
             NewSink(info.scheme, IF info.scheme = "rtsp" THEN RtspPath(info) ELSE 0),
             NewPipeline(id, info), srv, f)

(***************************************************************************)
(* Initial state                                                           *)
(***************************************************************************)
Init ==
    /\ streams = EmptyMap
    /\ settings = InfoBag(EmptyMap)
    /\ lock = 0
    /\ pc = [t \in Threads |-> "idle"]
    /\ call = [t \in Threads |-> NoCall]
    /\ calls = MaxCalls
    /\ local = [t \in Threads |-> NoStream]
    /\ todo = [t \in Threads |-> {}]
    /\ warned = [t \in Threads |-> {}]
    /\ sessions = EmptyMap
    /\ rtsp = {}
    /\ nextId = 1
    /\ nextSession = 1
    /\ held = EmptyMap
    /\ boot = NoBoot
    /\ unit = NoUnit

\* A single caller: the second thread never runs.
InitSeq ==
    /\ streams = EmptyMap
    /\ settings = InfoBag(EmptyMap)
    /\ lock = 0
    /\ pc = [t \in Threads |-> IF t = 1 THEN "idle" ELSE "off"]
    /\ call = [t \in Threads |-> NoCall]
    /\ calls = MaxSeqCalls
    /\ local = [t \in Threads |-> NoStream]
    /\ todo = [t \in Threads |-> {}]
    /\ warned = [t \in Threads |-> {}]
    /\ sessions = EmptyMap
    /\ rtsp = {}
    /\ nextId = 1
    /\ nextSession = 1
    /\ held = EmptyMap
    /\ boot = NoBoot
    /\ unit = NoUnit

\* A thread may start a call when it is in none, start_default included.
Ready(t) == pc[t] \in {"idle", "done"} /\ ~boot.active

\* c repeats the call d: same function, same ids, and d returned Ok.
Repeats(c, d) ==
    /\ d.res = "Ok"
    /\ c.op = d.op
    /\ c.id = d.id
    /\ c.sid = d.sid

\* A thread starts a call whose first statement is MANAGER.lock(): the call
\* gets under way when the Mutex is free, and holds it.
Start(t, c, at) ==
    /\ Ready(t)
    /\ lock = 0
    /\ lock' = t
    /\ calls > 0
    /\ calls' = calls - 1
    /\ call' = [call EXCEPT ![t] = [c EXCEPT !.again = Repeats(c, call[t])]]
    /\ pc' = [pc EXCEPT ![t] = at]

\* A call returns: the caller keeps the result; the information it passed
\* is consumed.
Finish(t, res) ==
    /\ call' = [call EXCEPT ![t].res = res, ![t].info = NoInfo]
    /\ pc' = [pc EXCEPT ![t] = "done"]

(***************************************************************************)
(* The MANAGER Mutex                                                       *)
(***************************************************************************)
AfterLock(p) ==
    CASE p = "as_lock2" -> "as_insert"
      [] p = "rm_lock" -> "rm_take"
      [] OTHER -> "none"

\* MANAGER.lock(): blocks until the Mutex is free.
Acquire(t) ==
    /\ AfterLock(pc[t]) # "none"
    /\ lock = 0
    /\ lock' = t
    /\ pc' = [pc EXCEPT ![t] = AfterLock(pc[t])]
    /\ UNCHANGED <<unit, boot, held, streams, settings, call, calls, local, todo, warned,
                   sessions, rtsp, nextId, nextSession>>

(***************************************************************************)
(* add_stream_and_start                                                    *)
(***************************************************************************)
\* add_stream_and_start up to the conflict check: Stream::try_new, and the
\* Mutex taken when the stream was built; an error of try_new returns before
\* the Mutex is asked for.
AddStreamAndStart(t, info, f) ==
    /\ lock = 0
    /\ nextId <= MaxStreams
    /\ LET r == Stream_try_new(nextId, info, rtsp, f)
           c == [NoCall EXCEPT !.op = "add_stream_and_start", !.info = info]
       IN /\ rtsp' = r.rtsp
          /\ lock' = IF r.ok THEN t ELSE 0
          /\ IF r.ok
             THEN /\ local' = [local EXCEPT ![t] = r.st]
                  /\ nextId' = nextId + 1
                  /\ call' = [call EXCEPT ![t] = [c EXCEPT !.id = nextId]]
                  /\ pc' = [pc EXCEPT ![t] = "as_check"]
             ELSE /\ call' = [call EXCEPT ![t] = [NoCall EXCEPT !.op = c.op,
                                                                 !.res = "BuildError"]]
                  /\ pc' = [pc EXCEPT ![t] = "done"]
                  /\ UNCHANGED <<local, nextId>>
    /\ UNCHANGED <<unit, held, streams, settings, todo, warned, sessions, nextSession>>

\* A caller starts add_stream_and_start.
BeginAdd(t, info, f) ==
    /\ Ready(t)
    /\ calls > 0
    /\ calls' = calls - 1
    /\ AddStreamAndStart(t, info, f)
    /\ UNCHANGED boot

\* The conflict check against every registered stream, under the Mutex; the
\* Mutex is dropped at the end of the check (or by the early return). The
\* stream that was built is dropped on a conflict, or registered all the
\* same when registers.
ConflictCheck(t, registers) ==
    /\ pc[t] = "as_check"
    /\ lock = t
    /\ lock' = 0
    /\ IF \E id \in DOMAIN streams : conflicts_with(streams[id].info, call[t].info)
       THEN /\ Finish(t, "Conflict")
            /\ local' = [local EXCEPT ![t] = NoStream]
            /\ streams' = IF registers
                          THEN MapInsert(streams, local[t].id, local[t])
                          ELSE streams
       ELSE /\ pc' = [pc EXCEPT ![t] = "as_lock2"]
            /\ UNCHANGED <<call, local, streams>>
    /\ UNCHANGED <<unit, boot, held, settings, calls, todo, warned, sessions, rtsp,
                   nextId, nextSession>>

\* A check that registers the stream before it reports the conflict.
AsCheck_Registers(t) == ConflictCheck(t, TRUE)

\* for stream in manager.streams.values() { stream.conflicts_with(..)? }
AsCheck(t) == ConflictCheck(t, FALSE)

\* Manager::add_stream, under the Mutex taken anew.
Manager_add_stream(t) ==
    /\ pc[t] = "as_insert"
    /\ lock = t
    /\ lock' = 0
    /\ streams' = MapInsert(streams, local[t].id, local[t])
    /\ local' = [local EXCEPT ![t] = NoStream]
    /\ IF local[t].id \in DOMAIN streams
       THEN /\ Finish(t, "FailedAdding")
            /\ UNCHANGED settings
       ELSE /\ Finish(t, "Ok")
            /\ settings' = update_settings(streams')
    /\ UNCHANGED <<unit, boot, held, calls, todo, warned, sessions, rtsp, nextId, nextSession>>

(***************************************************************************)
(* remove_stream and remove_stream_by_name                                 *)
(***************************************************************************)
BeginRemove(t, id) ==
    /\ Start(t, [NoCall EXCEPT !.op = "remove_stream", !.id = id], "rm_take")
    /\ UNCHANGED <<unit, boot, held, streams, settings, local, todo, warned, sessions,
                   rtsp, nextId, nextSession>>

BeginRemoveByName(t, name) ==
    /\ Start(t, [NoCall EXCEPT !.op = "remove_stream_by_name", !.info.name = name],
             "rn_find")
    /\ UNCHANGED <<unit, boot, held, streams, settings, local, todo, warned, sessions,
                   rtsp, nextId, nextSession>>

\* remove_stream_by_name: find an id carrying the name, drop the Mutex, then
\* call Manager::remove_stream(id).
RnFind(t) ==
    /\ pc[t] = "rn_find"
    /\ lock = t
    /\ lock' = 0
    /\ LET found == {id \in DOMAIN streams : streams[id].info.name = call[t].info.name}
       IN IF found = {}
          THEN Finish(t, "NotFound")
          ELSE \E id \in found :
                  /\ call' = [call EXCEPT ![t].id = id]
                  /\ pc' = [pc EXCEPT ![t] = "rm_lock"]
    /\ UNCHANGED <<unit, boot, held, streams, settings, calls, local, todo, warned, sessions,
                   rtsp, nextId, nextSession>>

\* The stream remove_stream holds once it is out of the registry: only its
\* pipeline and sinks are used from then on, its information is not read
\* again.
TakenOut(st) == [st EXCEPT !.info = NoInfo]

\* A remove_stream that tears a stream down and leaves it registered.
take_out_Stays(reg, id) == reg

\* manager.streams.remove(&stream_id)
take_out(reg, id) == MapRemove(reg, id)

\* A remove_stream that keeps the Mutex for the whole teardown.
drop_manager_Kept(t) == lock' = t

\* drop(manager), and the guard going out of scope at the early return.
drop_manager(t) == lock' = 0

\* Manager::remove_stream, the part under the Mutex: the stream is taken out
\* of the registry, the settings are updated, the Mutex is dropped.
RemoveStreamLocked(t, missing) ==
    /\ pc[t] = "rm_take"
    /\ lock = t
    /\ drop_manager(t)
    /\ IF call[t].id \notin DOMAIN streams
       THEN /\ Finish(t, missing)
            /\ UNCHANGED <<streams, settings, local>>
       ELSE /\ streams' = take_out(streams, call[t].id)
            /\ settings' = update_settings(streams')
            /\ local' = [local EXCEPT ![t] = TakenOut(streams[call[t].id])]
            /\ pc' = [pc EXCEPT ![t] = "rm_eos"]
            /\ UNCHANGED call
    /\ UNCHANGED <<unit, boot, held, calls, todo, warned, sessions, rtsp, nextId, nextSession>>

\* A remove_stream that takes a missing stream for removed and returns Ok.
RmTakeSilent(t) == RemoveStreamLocked(t, "Ok")

\* if !contains_key(id) { return Err("Already removed") }
RmTake(t) == RemoveStreamLocked(t, "AlreadyRemoved")

\* pipeline.send_event(Eos::new())
RmEos(t) ==
    /\ pc[t] = "rm_eos"
    /\ local' = [local EXCEPT ![t].eos = TRUE]
    /\ pc' = [pc EXCEPT ![t] = "rm_set_null"]
    /\ UNCHANGED <<unit, boot, held, streams, settings, lock, call, calls, todo, warned,
                   sessions, rtsp, nextId, nextSession>>

\* pipeline.set_state(Null): the pipeline is Null at once, or the change is
\* still under way (or was refused, which is only logged).
RmSetNull(t, now) ==
    /\ pc[t] = "rm_set_null"
    /\ local' = [local EXCEPT ![t].state = IF now THEN "Null" ELSE @]
    /\ pc' = [pc EXCEPT ![t] = "rm_poll"]
    /\ UNCHANGED <<unit, boot, held, streams, settings, lock, call, calls, todo, warned,
                   sessions, rtsp, nextId, nextSession>>

\* The framework completes the state change of a pipeline that is being
\* polled.
PipelineReachesNull(t) ==
    /\ pc[t] = "rm_poll"
    /\ local[t].state # "Null"
    /\ local' = [local EXCEPT ![t].state = "Null"]
    /\ UNCHANGED <<unit, boot, held, streams, settings, lock, pc, call, calls, todo, warned,
                   sessions, rtsp, nextId, nextSession>>

\* while pipeline.current_state() != Null { sleep(100 ms) }: when it waits,
\* the loop is left only in a state where the pipeline is Null.
PollLoop(t, waits) ==
    /\ pc[t] = "rm_poll"
    /\ waits => local[t].state = "Null"
    /\ todo' = [todo EXCEPT ![t] = DOMAIN local[t].sinks]
    /\ warned' = [warned EXCEPT ![t] = {}]
    /\ pc' = [pc EXCEPT ![t] = IF DOMAIN local[t].sinks = {} THEN "rm_return"
                                                               ELSE "rm_unlink"]
    /\ UNCHANGED <<unit, boot, held, streams, settings, lock, call, calls, local, sessions,
                   rtsp, nextId, nextSession>>

\* A remove_stream that looks at the state once and goes on.
RmPoll_Once(t) == PollLoop(t, FALSE)

RmPoll(t) == PollLoop(t, TRUE)

\* An unlink loop that gives up at the first error.
AfterUnlinkStop(rest, ok) == IF rest = {} \/ ~ok THEN "rm_return" ELSE "rm_unlink"

\* Where the unlink loop goes after one sink, given the sinks left and
\* whether this unlink succeeded.
AfterUnlink(rest, ok) == IF rest = {} THEN "rm_return" ELSE "rm_unlink"

\* One iteration of sinks.values().for_each(|sink| sink.unlink(..)): an error
\* is logged as a warning.
RmUnlink(t, sid, f) ==
    /\ pc[t] = "rm_unlink"
    /\ sid \in todo[t]
    /\ LET r == Sink_unlink(sid, local[t], rtsp, sessions, f) IN
          /\ local' = [local EXCEPT ![t] = r.st]
          /\ rtsp' = r.rtsp
          /\ sessions' = r.sessions
          /\ warned' = [warned EXCEPT ![t] = IF r.ok THEN @ ELSE @ \cup {sid}]
          /\ pc' = [pc EXCEPT ![t] = AfterUnlink(todo[t] \ {sid}, r.ok)]
    /\ todo' = [todo EXCEPT ![t] = @ \ {sid}]
    /\ UNCHANGED <<unit, boot, held, streams, settings, lock, call, calls, nextId, nextSession>>

\* Ok(()) is returned and the local stream goes out of scope.
RmReturn(t) ==
    /\ pc[t] = "rm_return"
    /\ Finish(t, "Ok")
    /\ local' = [local EXCEPT ![t] = NoStream]
    /\ warned' = [warned EXCEPT ![t] = {}]
    /\ UNCHANGED <<unit, boot, held, streams, settings, lock, calls, todo, sessions,
                   rtsp, nextId, nextSession>>

(***************************************************************************)
(* WebRTC sessions                                                         *)
(***************************************************************************)
NewSession(producer) == [producer |-> producer, state |-> "New", outbox |-> <<>>]

BeginAddSession(t, producer) ==
    /\ nextSession <= MaxSessions
    /\ Start(t, [NoCall EXCEPT !.op = "add_session", !.id = producer,
                               !.sid = nextSession], "ss_body")
    /\ nextSession' = nextSession + 1
    /\ UNCHANGED <<unit, boot, held, streams, settings, local, todo, warned, sessions,
                   rtsp, nextId>>

\* Manager::add_session under the Mutex.  f = 3: WebRTCSink::try_new fails;
\* f in {1, 2}: add_sink fails (AddFailed, LinkFailed).  `checked`: the
\* error of add_sink is propagated.
AddSessionLocked(t, f, checked) ==
    /\ pc[t] = "ss_body"
    /\ lock = t
    /\ lock' = 0
    /\ LET p == call[t].id
           sid == call[t].sid
       IN IF p \notin DOMAIN streams
          THEN /\ Finish(t, "ProducerNotFound")
               /\ UNCHANGED <<streams, sessions, rtsp>>
          ELSE IF f = 3
          THEN /\ Finish(t, "SinkError")
               /\ UNCHANGED <<streams, sessions, rtsp>>
          ELSE LET r == add_sink(sid, NewSink("webrtc", 0), streams[p], rtsp, f) IN
               /\ streams' = [streams EXCEPT ![p] = r.st]
               /\ rtsp' = r.rtsp
               /\ IF r.ok \/ ~checked
                  THEN /\ Finish(t, "Ok")
                       /\ sessions' = MapInsert(sessions, sid, NewSession(p))
                  ELSE /\ Finish(t, "LinkError")
                       /\ UNCHANGED sessions
    /\ UNCHANGED <<unit, boot, held, settings, calls, local, todo, warned, nextId, nextSession>>

\* An add_session that drops the result of add_sink.
Manager_add_session_Unchecked(t, f) == AddSessionLocked(t, f, FALSE)

\* stream.pipeline.add_sink(sink)?
Manager_add_session(t, f) == AddSessionLocked(t, f, TRUE)

BeginRemoveSession(t, producer, sid) ==
    /\ Start(t, [NoCall EXCEPT !.op = "remove_session", !.id = producer, !.sid = sid],
             "rs_body")
    /\ UNCHANGED <<unit, boot, held, streams, settings, local, todo, warned, sessions,
                   rtsp, nextId, nextSession>>

\* Pipeline remove_sink: take the sink out of the map (an error when it is
\* missing), then unlink it; an unlink error is logged only.
remove_sink(sid, st, srv, sess, f) ==
    IF sid \notin DOMAIN st.sinks
    THEN [st |-> st, rtsp |-> srv, sessions |-> sess, ok |-> FALSE]
    ELSE LET r == Sink_unlink(sid, st, srv, sess, f) IN
         [st |-> [r.st EXCEPT !.sinks = MapRemove(@, sid)],
          rtsp |-> r.rtsp, sessions |-> r.sessions, ok |-> TRUE]

\* Manager::remove_session under the Mutex; `missing` is what it returns when
\* remove_sink finds no sink under the session id.
RemoveSessionLocked(t, f, missing) ==
    /\ pc[t] = "rs_body"
    /\ lock = t
    /\ lock' = 0
    /\ LET p == call[t].id IN
       IF p \notin DOMAIN streams
       THEN /\ Finish(t, "ProducerNotFound")
            /\ UNCHANGED <<streams, sessions, rtsp>>
       ELSE LET r == remove_sink(call[t].sid, streams[p], rtsp, sessions, f) IN
            /\ streams' = [streams EXCEPT ![p] = r.st]
            /\ rtsp' = r.rtsp
            /\ sessions' = r.sessions
            /\ Finish(t, IF r.ok THEN "Ok" ELSE missing)
    /\ UNCHANGED <<unit, boot, held, settings, calls, local, todo, warned, nextId, nextSession>>

\* A remove_session that takes a missing session for removed and returns Ok.
Manager_remove_session_Silent(t, f) == RemoveSessionLocked(t, f, "Ok")

\* remove_sink(&bind.session_id).context("Cannot remove session ..")?
Manager_remove_session(t, f) == RemoveSessionLocked(t, f, "SessionNotFound")

(***************************************************************************)
(* WebRTC signalling: handle_sdp, handle_ice                               *)
(***************************************************************************)
\* RTCSessionDescription: Offer or Answer, carrying an SDP text that
\* SDPMessage::parse_buffer accepts or not.
Descriptions == [kind : {"offer", "answer"}, parses : BOOLEAN]

\* The candidate string of handle_ice; the empty string signals
\* end-of-candidates.
Candidates == [kind : {"candidate", "end-of-candidates"}, parses : {TRUE}]

\* Session states in which a remote description has been applied.
RemoteDescribed == {"RemoteOffered", "Answered", "Connected"}

\* WebRTCSink::handle_sdp: the description is applied as the remote
\* description when it matches the state of the session (an answer to the
\* local offer, an offer to a new session); otherwise OutOfOrder.
WebRTCSink_handle_sdp(sess, sid, kind) ==
    IF kind = "answer" /\ sess[sid].state = "LocalOffered"
    THEN [sessions |-> [sess EXCEPT ![sid].state = "Answered"], res |-> "Ok"]
    ELSE IF kind = "offer" /\ sess[sid].state = "New"
    THEN [sessions |-> [sess EXCEPT ![sid].state = "RemoteOffered"], res |-> "Ok"]
    ELSE [sessions |-> sess, res |-> "OutOfOrder"]

\* WebRTCSink::handle_ice: the candidate is handed to the peer connection,
\* which takes candidates once it has a remote description.
WebRTCSink_handle_ice(sess, sid) ==
    IF sess[sid].state \in RemoteDescribed THEN "Ok" ELSE "StateError"

\* streams.get(producer_id)?.sinks.get(session_id)? and the match on the
\* sink variant, shared by handle_sdp and handle_ice.
LocateSession(reg, p, sid) ==
    IF p \notin DOMAIN reg THEN "ProducerNotFound"
    ELSE IF sid \notin DOMAIN reg[p].sinks THEN "SessionNotFound"
    ELSE IF reg[p].sinks[sid].kind # "webrtc" THEN "NotWebRTC"
    ELSE "found"

\* A LocateSession that takes any sink found for the session's sink.
LocateAnySink(reg, p, sid) ==
    IF p \notin DOMAIN reg THEN "ProducerNotFound"
    ELSE IF sid \notin DOMAIN reg[p].sinks THEN "SessionNotFound"
    ELSE "found"

BeginHandleSdp(t, p, sid, desc) ==
    /\ Start(t, [NoCall EXCEPT !.op = "handle_sdp", !.id = p, !.sid = sid,
                               !.arg = desc], "sdp_body")
    /\ UNCHANGED <<unit, boot, held, streams, settings, local, todo, warned, sessions,
                   rtsp, nextId, nextSession>>

\* match sdp { Answer(..) => WebRTCSDPType::Answer, Offer(..) => ..::Offer }
SdpType == [k \in {"offer", "answer"} |-> k]

\* The match with its arms swapped.
SdpTypeSwapped == [k \in {"offer", "answer"} |-> IF k = "offer" THEN "answer" ELSE "offer"]

\* Manager::handle_sdp under the Mutex; `found` is the outcome of locating
\* the session's sink, `sdp_type` the type given to each description.
HandleSdpLocked(t, found, sdp_type) ==
    /\ pc[t] = "sdp_body"
    /\ lock = t
    /\ lock' = 0
    /\ IF found # "found"
       THEN /\ Finish(t, found)
            /\ UNCHANGED sessions
       ELSE IF ~call[t].arg.parses
       THEN /\ Finish(t, "ParseError")
            /\ UNCHANGED sessions
       ELSE IF call[t].sid \notin DOMAIN sessions
       THEN /\ Finish(t, "OutOfOrder")
            /\ UNCHANGED sessions
       ELSE LET r == WebRTCSink_handle_sdp(sessions, call[t].sid,
                                          sdp_type[call[t].arg.kind]) IN
            /\ sessions' = r.sessions
            /\ Finish(t, r.res)
    /\ UNCHANGED <<unit, boot, held, streams, settings, calls, local, todo, warned, rtsp,
                   nextId, nextSession>>

\* A handle_sdp that does not look at the variant of the sink it found.
Manager_handle_sdp_AnySink(t) ==
    HandleSdpLocked(t, LocateAnySink(streams, call[t].id, call[t].sid), SdpType)

\* A handle_sdp that takes an offer for an answer and an answer for an offer.
Manager_handle_sdp_Swapped(t) ==
    HandleSdpLocked(t, LocateSession(streams, call[t].id, call[t].sid), SdpTypeSwapped)

Manager_handle_sdp(t) ==
    HandleSdpLocked(t, LocateSession(streams, call[t].id, call[t].sid), SdpType)

BeginHandleIce(t, p, sid, cand) ==
    /\ Start(t, [NoCall EXCEPT !.op = "handle_ice", !.id = p, !.sid = sid,
                               !.arg = cand], "ice_body")
    /\ UNCHANGED <<unit, boot, held, streams, settings, local, todo, warned, sessions,
                   rtsp, nextId, nextSession>>

\* Manager::handle_ice under the Mutex; `pass` is what the result of the
\* sink's handle_ice is turned into.
HandleIceLocked(t, pass) ==
    /\ pc[t] = "ice_body"
    /\ lock = t
    /\ lock' = 0
    /\ LET found == LocateSession(streams, call[t].id, call[t].sid) IN
       IF found # "found"
       THEN Finish(t, found)
       ELSE IF call[t].sid \notin DOMAIN sessions
       THEN Finish(t, pass["StateError"])
       ELSE Finish(t, pass[WebRTCSink_handle_ice(sessions, call[t].sid)])
    /\ UNCHANGED <<unit, boot, held, streams, settings, calls, local, todo, warned, sessions, rtsp,
                   nextId, nextSession>>

\* A handle_ice that drops the result of the sink's handle_ice.
Manager_handle_ice_Dropped(t) ==
    HandleIceLocked(t, [r \in {"Ok", "StateError"} |-> "Ok"])

\* session.handle_ice(&sdp_m_line_index, candidate)
Manager_handle_ice(t) ==
    HandleIceLocked(t, [r \in {"Ok", "StateError"} |-> r])

\* The peer connection of a session moves it on: the local offer is
\* emitted, the local answer to a remote offer is emitted, the media is
\* negotiated, or the negotiation fails.
SessionMoves(from, to) ==
    \/ from = "New" /\ to = "LocalOffered"
    \/ from = "RemoteOffered" /\ to = "Answered"
    \/ from = "Answered" /\ to = "Connected"
    \/ from \in {"New", "LocalOffered", "RemoteOffered", "Answered"} /\ to = "Failed"

SessionStates ==
    {"New", "LocalOffered", "RemoteOffered", "Answered", "Connected", "Failed", "Closed"}

PeerConnection(sid, to) ==
    /\ sid \in DOMAIN sessions
    /\ SessionMoves(sessions[sid].state, to)
    /\ sessions' = [sessions EXCEPT ![sid].state = to]
    /\ UNCHANGED <<unit, boot, held, streams, settings, lock, pc, call, calls, local, todo, warned,
                   rtsp, nextId, nextSession>>

(***************************************************************************)
(* streams()                                                               *)
(***************************************************************************)
\* Manager::streams_information: the snapshot of {id, running, info} the
\* caller is handed.
streams_information(reg) ==
    {[id |-> id, running |-> reg[id].state = "Playing", info |-> reg[id].info] :
        id \in DOMAIN reg}

BeginStreams(t) ==
    /\ Start(t, [NoCall EXCEPT !.op = "streams"], "ls_body")
    /\ UNCHANGED <<unit, boot, held, streams, settings, local, todo, warned, sessions,
                   rtsp, nextId, nextSession>>

Manager_streams_information(t) ==
    /\ pc[t] = "ls_body"
    /\ lock = t
    /\ lock' = 0
    /\ Finish(t, "Ok")
    /\ UNCHANGED <<unit, boot, held, streams, settings, calls, local, todo, warned, sessions, rtsp,
                   nextId, nextSession>>

(***************************************************************************)
(* start_default                                                           *)
(***************************************************************************)
\* The stream sets a settings file can hold when the service boots: what an
\* earlier run handed to set_streams after adding streams one by one.
PersistedSets ==
    {S \in SUBSET Infos :
        /\ Cardinality(S) <= MaxStreams
        /\ \A a \in S, b \in S : a # b => ~conflicts_with(a, b)}

\* settings::manager::streams(): the informations the settings store holds.
settings_streams(store) == DOMAIN store

\* MANAGER.lock().streams.clear(): one statement, the Mutex is taken and
\* dropped within it. Nothing is handed to the settings store.
SdClear(t) ==
    /\ pc[t] = "sd_clear"
    /\ boot.active
    /\ lock = 0
    /\ streams' = EmptyMap
    /\ pc' = [pc EXCEPT ![t] = "sd_load"]
    /\ UNCHANGED <<unit, boot, held, settings, lock, call, calls, local, todo, warned,
                   sessions, rtsp, nextId, nextSession>>

\* The persisted streams are read, their sources are refreshed, and the ones
\* whose source is_valid() are kept: which ones are is up to the devices.
SdLoad(t, valid) ==
    /\ pc[t] = "sd_load"
    /\ boot.active
    /\ valid \subseteq settings_streams(settings)
    /\ boot' = [boot EXCEPT !.loaded = settings_streams(settings),
                            !.valid = valid, !.pending = valid]
    /\ pc' = [pc EXCEPT ![t] = "sd_loop"]
    /\ UNCHANGED <<unit, held, streams, settings, lock, call, calls, local, todo, warned,
                   sessions, rtsp, nextId, nextSession>>

\* for stream in streams { add_stream_and_start(stream) ... }: the next
\* stream of the loop enters add_stream_and_start.
SdAdd(t, info, f) ==
    /\ pc[t] = "sd_loop"
    /\ boot.active
    /\ info \in boot.pending
    /\ boot' = [boot EXCEPT !.pending = @ \ {info}, !.stream = info]
    /\ AddStreamAndStart(t, info, f)
    /\ UNCHANGED calls

\* add_stream_and_start returned into the loop: its error, if any, is
\* logged, and the loop goes on when goes_on (unwrap_or_else) or leaves the
\* remaining streams alone when not.
StartDefaultNext(t, goes_on) ==
    /\ pc[t] = "done"
    /\ boot.active
    /\ pc' = [pc EXCEPT ![t] = "sd_loop"]
    /\ boot' = IF call[t].res = "Ok"
               THEN [boot EXCEPT !.stream = NoInfo]
               ELSE [boot EXCEPT !.stream = NoInfo,
                                 !.failed = @ \cup {boot.stream},
                                 !.pending = IF goes_on THEN @ ELSE {}]
    /\ UNCHANGED <<unit, held, streams, settings, lock, call, calls, local, todo,
                   warned, sessions, rtsp, nextId, nextSession>>

\* A loop that gives up at the first stream it could not add.
SdNext_GivesUp(t) == StartDefaultNext(t, FALSE)

\* add_stream_and_start(stream).unwrap_or_else(|error| error!(...))
SdNext(t) == StartDefaultNext(t, TRUE)

\* The loop is over and start_default returns.
SdReturn(t) ==
    /\ pc[t] = "sd_loop"
    /\ boot.active
    /\ boot.pending = {}
    /\ boot' = NoBoot
    /\ pc' = [pc EXCEPT ![t] = "idle"]
    /\ UNCHANGED <<unit, held, streams, settings, lock, call, calls, local, todo,
                   warned, sessions, rtsp, nextId, nextSession>>

(***************************************************************************)
(* Specification                                                           *)
(***************************************************************************)
Next ==
    \/ \E t \in Threads : Acquire(t)
    \/ \E t \in Threads, info \in Infos, f \in LinkOutcomes : BeginAdd(t, info, f)
    \/ \E t \in Threads : AsCheck(t)
    \/ \E t \in Threads : Manager_add_stream(t)
    \/ \E t \in Threads, id \in StreamIds : BeginRemove(t, id)
    \/ \E t \in Threads, name \in Names : BeginRemoveByName(t, name)
    \/ \E t \in Threads : RnFind(t)
    \/ \E t \in Threads : RmTake(t)
    \/ \E t \in Threads : RmEos(t)
    \/ \E t \in Threads, now \in BOOLEAN : RmSetNull(t, now)
    \/ \E t \in Threads : PipelineReachesNull(t)
    \/ \E t \in Threads : RmPoll(t)
    \/ \E t \in Threads, sid \in SinkIds, f \in UnlinkOutcomes : RmUnlink(t, sid, f)
    \/ \E t \in Threads : RmReturn(t)
    \/ \E t \in Threads, p \in StreamIds : BeginAddSession(t, p)
    \/ \E t \in Threads, f \in 0..3 : Manager_add_session(t, f)
    \/ \E t \in Threads, p \in StreamIds, sid \in SessionIds : BeginRemoveSession(t, p, sid)
    \/ \E t \in Threads, f \in UnlinkOutcomes : Manager_remove_session(t, f)
    \/ \E t \in Threads : BeginStreams(t)
    \/ \E t \in Threads : Manager_streams_information(t)

Spec == Init /\ [][Next]_vars

\* Every operation of the Manager, by a single caller.
NextAll ==
    \/ Next
    \/ \E t \in Threads, p \in StreamIds, sid \in SinkIds, desc \in Descriptions :
          BeginHandleSdp(t, p, sid, desc)
    \/ \E t \in Threads : Manager_handle_sdp(t)
    \/ \E t \in Threads, p \in StreamIds, sid \in SinkIds, cand \in Candidates :
          BeginHandleIce(t, p, sid, cand)
    \/ \E t \in Threads : Manager_handle_ice(t)
    \/ \E sid \in SessionIds, to \in SessionStates : PeerConnection(sid, to)

SpecAll == InitSeq /\ [][NextAll]_vars

\* Every operation of the Manager, by two callers.
SpecBoth == Init /\ [][NextAll]_vars

\* A caller hands Manager::add_stream a stream it built itself, under an id
\* that was given out before (the id of a registered stream, or of one that
\* was removed).
BeginAddStream(t, id, info, f) ==
    /\ id < nextId
    /\ LET r == Stream_try_new(id, info, rtsp, f) IN
          /\ r.ok
          /\ rtsp' = r.rtsp
          /\ local' = [local EXCEPT ![t] = r.st]
    /\ Start(t, [NoCall EXCEPT !.op = "add_stream", !.id = id, !.info = info],
             "as_insert")
    /\ UNCHANGED <<unit, boot, held, streams, settings, todo, warned, sessions,
                   nextId, nextSession>>

\* The Manager with add_stream called directly as well, by a single caller.
NextDirect ==
    \/ Next
    \/ \E t \in Threads, id \in StreamIds, info \in Infos, f \in LinkOutcomes :
          BeginAddStream(t, id, info, f)

SpecDirect == InitSeq /\ [][NextDirect]_vars

\* A step of the teardown half of remove_stream by thread t, the progress
\* of its pipeline towards Null included.
TeardownStep(t) ==
    \/ RmTake(t)
    \/ RmEos(t)
    \/ \E now \in BOOLEAN : RmSetNull(t, now)
    \/ PipelineReachesNull(t)
    \/ RmPoll(t)
    \/ \E sid \in SinkIds, f \in UnlinkOutcomes : RmUnlink(t, sid, f)
    \/ RmReturn(t)

\* The callers of Spec, where a thread inside remove_stream keeps running
\* and a pipeline asked to go to Null gets there.
SpecLive == Init /\ [][Next]_vars /\ \A t \in Threads : WF_vars(TeardownStep(t))

\* Callers that add streams and remove them by name, nothing else.
InitNames ==
    /\ streams = EmptyMap
    /\ settings = InfoBag(EmptyMap)
    /\ lock = 0
    /\ pc = [t \in Threads |-> "idle"]
    /\ call = [t \in Threads |-> NoCall]
    /\ calls = MaxNameCalls
    /\ local = [t \in Threads |-> NoStream]
    /\ todo = [t \in Threads |-> {}]
    /\ warned = [t \in Threads |-> {}]
    /\ sessions = EmptyMap
    /\ rtsp = {}
    /\ nextId = 1
    /\ nextSession = 1
    /\ held = EmptyMap
    /\ boot = NoBoot
    /\ unit = NoUnit

NextNames ==
    \/ \E t \in Threads : Acquire(t)
    \/ \E t \in Threads, info \in Infos, f \in LinkOutcomes : BeginAdd(t, info, f)
    \/ \E t \in Threads : AsCheck(t)
    \/ \E t \in Threads : Manager_add_stream(t)
    \/ \E t \in Threads, name \in Names : BeginRemoveByName(t, name)
    \/ \E t \in Threads : RnFind(t)
    \/ \E t \in Threads : TeardownStep(t)

SpecNames == InitNames /\ [][NextNames]_vars

(***************************************************************************)
(* The Sink interface, driven by one caller on one pipeline                *)
(***************************************************************************)
\* The sinks the caller constructs, with the paths of the RTSP ones.
BenchSinks == {EndpointSinkId(id) : id \in {1, 2}}

BenchPath(sid) == IF sid = EndpointSinkId(1) THEN 1 ELSE 2

SinkKinds == {"rtsp", "udp", "webrtc"}

\* try_new of every sink (no pad stored), and a pipeline without sinks.
InitSink ==
    /\ streams = EmptyMap
    /\ settings = InfoBag(EmptyMap)
    /\ lock = 0
    /\ pc = [t \in Threads |-> IF t = 1 THEN "bench" ELSE "off"]
    /\ call = [t \in Threads |-> NoCall]
    /\ calls = 0
    /\ local = [t \in Threads |-> IF t = 1 THEN NewPipeline(1, NoInfo) ELSE NoStream]
    /\ todo = [t \in Threads |-> {}]
    /\ warned = [t \in Threads |-> {}]
    /\ sessions = EmptyMap
    /\ rtsp = {}
    /\ nextId = 1
    /\ nextSession = 1
    /\ boot = NoBoot
    /\ unit = NoUnit
    /\ held \in [BenchSinks -> [kind : SinkKinds, tee_src_pad : {FALSE},
                                path : {0} \cup {BenchPath(sid) : sid \in BenchSinks}]]
    /\ \A sid \in BenchSinks :
          held[sid] = NewSink(held[sid].kind,
                              IF held[sid].kind = "rtsp" THEN BenchPath(sid) ELSE 0)

\* The caller records the call it made and its result.
Bench(t, op, sid, res) ==
    /\ pc[t] = "bench"
    /\ call' = [call EXCEPT ![t] = [NoCall EXCEPT !.op = op, !.sid = sid, !.res = res]]
    /\ UNCHANGED <<unit, boot, streams, settings, lock, pc, calls, todo, warned, nextId,
                   nextSession>>

\* add_sink with a sink the caller holds, whose earlier pad (if it had one)
\* is off the tee: the sink goes into the sinks map when the link succeeds
\* and stays with the caller, as link left it, when it fails.
BenchAdd(t, sid, f) ==
    /\ pc[t] = "bench"
    /\ sid \in DOMAIN held
    /\ sid \notin local[t].tee_pads
    /\ LET pad == [local[t] EXCEPT !.tee_pads = @ \cup {sid}]
           l == Sink_link(sid, held[sid], pad, rtsp, f)
           r == add_sink(sid, held[sid], local[t], rtsp, f)
       IN /\ local' = [local EXCEPT ![t] = r.st]
          /\ rtsp' = r.rtsp
          /\ held' = IF r.ok THEN MapRemove(held, sid)
                             ELSE [held EXCEPT ![sid] = l.sink]
          /\ Bench(t, "link", sid, IF r.ok THEN "Ok" ELSE LinkError(held[sid], f))
    /\ UNCHANGED sessions

\* remove_sink: the sink leaves the sinks map and is unlinked; the caller
\* keeps it, and the result of its unlink.
BenchRemove(t, sid, f) ==
    /\ pc[t] = "bench"
    /\ sid \in DOMAIN local[t].sinks
    /\ LET u == Sink_unlink(sid, local[t], rtsp, sessions, f)
           r == remove_sink(sid, local[t], rtsp, sessions, f)
       IN /\ local' = [local EXCEPT ![t] = r.st]
          /\ rtsp' = r.rtsp
          /\ sessions' = r.sessions
          /\ held' = MapInsert(held, sid, u.st.sinks[sid])
          /\ Bench(t, "remove_sink", sid, IF u.ok THEN "Ok" ELSE "UnlinkError")

\* unlink of a sink the caller holds.
BenchUnlink(t, sid, f) ==
    /\ pc[t] = "bench"
    /\ sid \in DOMAIN held
    /\ LET own == [local[t] EXCEPT !.sinks = MapInsert(@, sid, held[sid])]
           u == Sink_unlink(sid, own, rtsp, sessions, f)
       IN /\ local' = [local EXCEPT ![t] = [u.st EXCEPT !.sinks = local[t].sinks]]
          /\ rtsp' = u.rtsp
          /\ sessions' = u.sessions
          /\ held' = [held EXCEPT ![sid] = u.st.sinks[sid]]
          /\ Bench(t, "unlink", sid, IF u.ok THEN "Ok" ELSE "UnlinkError")

NextSink ==
    \/ \E t \in Threads, sid \in BenchSinks, f \in LinkOutcomes : BenchAdd(t, sid, f)
    \/ \E t \in Threads, sid \in BenchSinks, f \in UnlinkOutcomes : BenchRemove(t, sid, f)
    \/ \E t \in Threads, sid \in BenchSinks, f \in UnlinkOutcomes : BenchUnlink(t, sid, f)

SpecSink == InitSink /\ [][NextSink]_vars

SpecSeq == InitSeq /\ [][Next]_vars

(***************************************************************************)
(* The service from its boot: start_default, then the calls of one caller  *)
(***************************************************************************)
\* An empty registry, a settings store holding what an earlier run left,
\* and the main thread about to run start_default.
InitBoot ==
    /\ streams = EmptyMap
    /\ \E S \in PersistedSets : settings = [i \in S |-> 1]
    /\ lock = 0
    /\ pc = [t \in Threads |-> IF t = 1 THEN "sd_clear" ELSE "off"]
    /\ call = [t \in Threads |-> NoCall]
    /\ calls = MaxBootCalls
    /\ local = [t \in Threads |-> NoStream]
    /\ todo = [t \in Threads |-> {}]
    /\ warned = [t \in Threads |-> {}]
    /\ sessions = EmptyMap
    /\ rtsp = {}
    /\ nextId = 1
    /\ nextSession = 1
    /\ held = EmptyMap
    /\ boot = [NoBoot EXCEPT !.active = TRUE]
    /\ unit = NoUnit

NextBoot ==
    \/ \E t \in Threads : SdClear(t)
    \/ \E t \in Threads, valid \in SUBSET Infos : SdLoad(t, valid)
    \/ \E t \in Threads, info \in Infos, f \in LinkOutcomes : SdAdd(t, info, f)
    \/ \E t \in Threads : SdNext(t)
    \/ \E t \in Threads : SdReturn(t)
    \/ Next

SpecBoot == InitBoot /\ [][NextBoot]_vars

\* start_default is called again, on a Manager that is running.
BeginStartDefault(t) ==
    /\ Ready(t)
    /\ calls > 0
    /\ calls' = calls - 1
    /\ boot' = [NoBoot EXCEPT !.active = TRUE]
    /\ pc' = [pc EXCEPT ![t] = "sd_clear"]
    /\ UNCHANGED <<unit, held, streams, settings, lock, call, local, todo, warned,
                   sessions, rtsp, nextId, nextSession>>

NextReboot ==
    \/ NextBoot
    \/ \E t \in Threads : BeginStartDefault(t)

SpecReboot == InitBoot /\ [][NextReboot]_vars

(***************************************************************************)
(* Stream backend: validation of a request and the UDP pipeline made of it *)
(***************************************************************************)
\* The endpoints are urls: a scheme, and a host and a port that may be
\* missing.
Schemes == {"rtsp", "udp", "udp265", "tcp"}

NoHost == ""

NoPort == 0

Hosts == {"192.168.0.1"}

Ports == {42, 5600}

Urls == [scheme : Schemes, host : Hosts \cup {NoHost}, port : Ports \cup {NoPort}]

EndpointLists == UNION {[1..n -> Urls] : n \in 0..MaxEndpoints}

\* VideoEncodeType, with UNKNOWN(name).
Encodes == {"H264", "H265", "MJPG", "UNKNOWN"}

\* VideoSourceType: a local device, the fake source of gstreamer, any other
\* gstreamer source.
Sources == {"Local", "GstFake", "GstOther"}

FrameIntervals == {[numerator |-> 1, denominator |-> 30],
                   [numerator |-> 2, denominator |-> 15]}

\* VideoAndStreamInformation as the backend reads it.
Requests ==
    [endpoints : EndpointLists, encode : Encodes, source : Sources,
     width : {1080}, height : {720}, frame_interval : FrameIntervals]

DevicePath == "/dev/video42"

Pattern == "ball"

\* if endpoints.is_empty() ...; if the schemes of neighbours differ and
\* uniform is asked for ...
CheckEndpoints(info, uniform) ==
    LET endpoints == info.endpoints IN
    IF endpoints = <<>>
    THEN "EndpointsEmpty"
    ELSE IF uniform /\ ~(\A i \in 1..(Len(endpoints) - 1) :
                            endpoints[i].scheme = endpoints[i + 1].scheme)
         THEN "SchemesDiffer"
         ELSE "Ok"

\* A check that lets endpoints of several schemes through.
check_endpoints_Mixed(info) == CheckEndpoints(info, FALSE)

check_endpoints(info) == CheckEndpoints(info, TRUE)

check_encode(info) ==
    IF info.encode = "UNKNOWN"
    THEN "EncodeNotSupported"
    ELSE IF info.encode # "H264"
         THEN "OnlyH264Supported"
         ELSE "Ok"

\* match on the scheme of the first endpoint.
check_scheme(info) ==
    LET endpoints == info.endpoints
        scheme == endpoints[1].scheme
    IN CASE scheme = "rtsp" ->
               IF Len(endpoints) > 1 THEN "MultipleRtspEndpoints" ELSE "Ok"
         [] scheme = "udp" ->
               IF info.encode # "H264" THEN "UdpOnlyH264"
               ELSE IF info.encode = "H265" THEN "UdpShouldBeUdp265"
               ELSE IF \E i \in 1..Len(endpoints) :
                          endpoints[i].host = NoHost \/ endpoints[i].port = NoPort
                    THEN "UdpWithoutHostOrPort"
                    ELSE "Ok"
         [] scheme = "udp265" ->
               IF info.encode # "H265" THEN "Udp265OnlyH265" ELSE "Ok"
         [] OTHER -> "SchemeNotAccepted"

\* What the backend hands back: an error, or the stream with the parts of
\* its pipeline description. created tells whether a VideoStreamUdp was made.
Rejected(err) ==
    [ok |-> FALSE, err |-> err, created |-> FALSE, video_format |-> "",
     udp_encode |-> "", udp_sink |-> "", pipeline |-> ""]

\* format!("...,width={width},height={height},framerate={den}/{num}")
CapsFormat(info) ==
    ",width=" \o ToString(info.width) \o ",height=" \o ToString(info.height)
    \o ",framerate=" \o ToString(info.frame_interval.denominator)
    \o "/" \o ToString(info.frame_interval.numerator)

\* clients.join(sep)
RECURSIVE Join(_, _)
Join(strs, sep) ==
    IF strs = <<>> THEN ""
    ELSE IF Len(strs) = 1 THEN strs[1]
         ELSE strs[1] \o sep \o Join(Tail(strs), sep)

\* create_udp_stream, the clients joined by sep.
CreateUdpStream(info, sep) ==
    LET endpoints == info.endpoints
        unsupported ==
            \/ info.source = "Local" /\ info.encode # "H264"
            \/ info.source = "GstOther"
        video_format ==
            IF info.source = "Local"
            THEN "v4l2src device=" \o DevicePath \o " ! video/x-h264" \o CapsFormat(info)
            ELSE "videotestsrc pattern=" \o Pattern \o " ! video/x-raw" \o CapsFormat(info)
                 \o " ! videoconvert" \o " !  x264enc bitrate=5000"
                 \o " ! video/x-h264, profile=baseline"
        udp_encode == " ! h264parse" \o " ! queue" \o " ! rtph264pay config-interval=10 pt=96"
        clients == [i \in 1..Len(endpoints) |->
                       endpoints[i].host \o ":" \o ToString(endpoints[i].port)]
        udp_sink == " ! multiudpsink clients=" \o Join(clients, sep)
    IN IF unsupported
       THEN Rejected(IF info.source = "Local" THEN "UnsupportedEncodeForUdp"
                                              ELSE "UnsupportedGstSource")
       ELSE IF info.encode # "H264"
            THEN Rejected("UnsupportedEncode")
            ELSE IF \E i \in 1..Len(endpoints) :
                       endpoints[i].host = NoHost \/ endpoints[i].port = NoPort
                 THEN Rejected("Panic")
                 ELSE [ok |-> TRUE, err |-> "", created |-> TRUE,
                       video_format |-> video_format, udp_encode |-> udp_encode,
                       udp_sink |-> udp_sink,
                       pipeline |-> video_format \o udp_encode \o udp_sink]

\* A backend that separates the clients by blanks.
create_udp_stream_Blanks(info) == CreateUdpStream(info, " ")

create_udp_stream(info) == CreateUdpStream(info, ",")

\* create_stream: the first endpoint decides; unwrap() of a missing one
\* panics.
CreateStream(info, built) ==
    IF info.endpoints = <<>>
    THEN Rejected("Panic")
    ELSE IF info.endpoints[1].scheme \in built
         THEN create_udp_stream(info)
         ELSE Rejected("UnsupportedScheme")

\* A create_stream that builds a stream for every scheme.
create_stream_AnyScheme(info) == CreateStream(info, Schemes)

\* match scheme { "udp" => create_udp_stream(..), _ => Err("Unsupported scheme") }
create_stream(info) == CreateStream(info, {"udp"})

\* The three checks of stream_backend::new, in their order: the first error,
\* or Ok.
Checks(info) ==
    IF check_endpoints(info) # "Ok" THEN check_endpoints(info)
    ELSE IF check_encode(info) # "Ok" THEN check_encode(info)
    ELSE check_scheme(info)

\* stream_backend::new: the three checks, then create_stream.
new(info) ==
    IF Checks(info) # "Ok" THEN Rejected(Checks(info)) ELSE create_stream(info)

\* A request, not yet handed to the backend.
InitBackend ==
    /\ streams = EmptyMap
    /\ settings = InfoBag(EmptyMap)
    /\ lock = 0
    /\ pc = [t \in Threads |-> "off"]
    /\ call = [t \in Threads |-> NoCall]
    /\ calls = 0
    /\ local = [t \in Threads |-> NoStream]
    /\ todo = [t \in Threads |-> {}]
    /\ warned = [t \in Threads |-> {}]
    /\ sessions = EmptyMap
    /\ rtsp = {}
    /\ nextId = 1
    /\ nextSession = 1
    /\ held = EmptyMap
    /\ boot = NoBoot
    /\ \E info \in Requests : unit = [req |-> info, res |-> NoArg]

\* The request goes through stream_backend::new.
BackendNew ==
    /\ unit.res = NoArg
    /\ unit.req \in Requests
    /\ unit' = [unit EXCEPT !.res = [op |-> "new", out |-> new(unit.req)]]
    /\ UNCHANGED manager_vars

\* The request goes to create_stream directly, as the unit test does.
BackendCreate ==
    /\ unit.res = NoArg
    /\ unit.req \in Requests
    /\ unit' = [unit EXCEPT !.res = [op |-> "create_stream", out |-> create_stream(unit.req)]]
    /\ UNCHANGED manager_vars

NextBackend ==
    \/ BackendNew
    \/ BackendCreate

SpecBackend == InitBackend /\ [][NextBackend]_vars

(***************************************************************************)
(* FilePipeline                                                            *)
(***************************************************************************)
\* Widths and heights (u32) of the capture configurations tried.
Dimensions == 0..MaxDimension

\* Encodes by their to_string(): two that contain "image", two that do not.
FileEncodes == {"image/jpeg", "image/png", "H264", "MJPG"}

IsImage(encode) == encode \in {"image/jpeg", "image/png"}

\* What try_new reads of VideoAndStreamInformation: the variant of the
\* capture configuration, the variant of the source, and the configuration.
FileRequests ==
    [configuration : {"Video", "Redirect"}, source : {"File", "Local"},
     width : Dimensions, height : Dimensions, encode : FileEncodes]

\* The dimension check of try_new, as written and with the two tests joined
\* by both or by either.
DimensionsRefused(width, height, either) ==
    IF either
    THEN width % 2 # 0 \/ height % 2 # 0
    ELSE width % 2 # 0 /\ height % 2 # 0

\* FilePipeline::try_new; launches tells whether gst::parse::launch succeeds
\* on the description. launched: the description was handed to gstreamer.
FilePipelineTryNew(info, launches, either) ==
    IF info.configuration # "Video"
    THEN [ok |-> FALSE, err |-> "ConfigurationNotSupported", launched |-> FALSE]
    ELSE IF info.source # "File"
    THEN [ok |-> FALSE, err |-> "SourceNotSupported", launched |-> FALSE]
    ELSE IF DimensionsRefused(info.width, info.height, either)
    THEN [ok |-> FALSE, err |-> "NotMultiplesOf2", launched |-> FALSE]
    ELSE IF ~IsImage(info.encode)
    THEN [ok |-> FALSE, err |-> "FormatNotSupported", launched |-> FALSE]
    ELSE IF ~launches
    THEN [ok |-> FALSE, err |-> "LaunchError", launched |-> TRUE]
    ELSE [ok |-> TRUE, err |-> "", launched |-> TRUE]

\* if width % 2 != 0 && height % 2 != 0 { return Err(...) }
FilePipeline_try_new(info, launches) == FilePipelineTryNew(info, launches, FALSE)

\* A request, not yet handed to FilePipeline::try_new.
InitFile ==
    /\ streams = EmptyMap
    /\ settings = InfoBag(EmptyMap)
    /\ lock = 0
    /\ pc = [t \in Threads |-> "off"]
    /\ call = [t \in Threads |-> NoCall]
    /\ calls = 0
    /\ local = [t \in Threads |-> NoStream]
    /\ todo = [t \in Threads |-> {}]
    /\ warned = [t \in Threads |-> {}]
    /\ sessions = EmptyMap
    /\ rtsp = {}
    /\ nextId = 1
    /\ nextSession = 1
    /\ held = EmptyMap
    /\ boot = NoBoot
    /\ \E info \in FileRequests : unit = [req |-> info, res |-> NoArg]

FileTryNew(launches) ==
    /\ unit.res = NoArg
    /\ unit.req \in FileRequests
    /\ unit' = [unit EXCEPT !.res = [op |-> "try_new",
                                     out |-> FilePipeline_try_new(unit.req, launches)]]
    /\ UNCHANGED manager_vars

NextFile == \E launches \in BOOLEAN : FileTryNew(launches)

SpecFile == InitFile /\ [][NextFile]_vars

(***************************************************************************)
(* ONVIF discovery                                                         *)
(***************************************************************************)
\* The devices that may answer a WS-Discovery probe.
Devices == {"cam1", "cam2", "cam3"}

\* The "Onvif" thread has been spawned and is about to run its first
\* discovery: no device answered yet, none was logged.
InitOnvif ==
    /\ streams = EmptyMap
    /\ settings = InfoBag(EmptyMap)
    /\ lock = 0
    /\ pc = [t \in Threads |-> "off"]
    /\ call = [t \in Threads |-> NoCall]
    /\ calls = 0
    /\ local = [t \in Threads |-> NoStream]
    /\ todo = [t \in Threads |-> {}]
    /\ warned = [t \in Threads |-> {}]
    /\ sessions = EmptyMap
    /\ rtsp = {}
    /\ nextId = 1
    /\ nextSession = 1
    /\ held = EmptyMap
    /\ boot = NoBoot
    /\ unit = [thread |-> "running", at |-> "run", round |-> 1, answered |-> {},
               logged |-> {}, failures |-> 0]

\* DiscoveryBuilder ... .run().await?: the round yields the devices that
\* answered, or its error leaves discover_loop through `?`, and the expect()
\* of run_main_loop panics the thread.
DiscoveryRun(ok, devices) ==
    /\ "thread" \in DOMAIN unit
    /\ unit.thread = "running"
    /\ unit.at = "run"
    /\ unit' = IF ok
               THEN [unit EXCEPT !.at = "for_each", !.answered = devices]
               ELSE [unit EXCEPT !.thread = "panicked", !.failures = @ + 1]
    /\ UNCHANGED manager_vars

\* for_each_concurrent: info!("Device found: ...") for one of the devices.
DeviceFound(device) ==
    /\ "thread" \in DOMAIN unit
    /\ unit.thread = "running"
    /\ unit.at = "for_each"
    /\ device \in unit.answered
    /\ unit' = [unit EXCEPT !.answered = @ \ {device}, !.logged = @ \cup {device}]
    /\ UNCHANGED manager_vars

\* The stream of devices is exhausted: the loop starts its next round.
NextRound ==
    /\ "thread" \in DOMAIN unit
    /\ unit.thread = "running"
    /\ unit.at = "for_each"
    /\ unit.answered = {}
    /\ unit.round < MaxRounds
    /\ unit' = [unit EXCEPT !.at = "run", !.round = @ + 1]
    /\ UNCHANGED manager_vars

NextOnvif ==
    \/ \E ok \in BOOLEAN, devices \in SUBSET Devices : DiscoveryRun(ok, devices)
    \/ \E device \in Devices : DeviceFound(device)
    \/ NextRound

SpecOnvif == InitOnvif /\ [][NextOnvif]_vars

(***************************************************************************)
(* PipelineRunner: the loop that keeps a pipeline playing                  *)
(***************************************************************************)
\* What the bus hands to the loop: end-of-stream, an error, anything else.
BusMessages == {"Eos", "Error", "StateChanged"}

\* The pipeline was parsed and its bus taken: the loop is entered. The
\* runner is at its next statement; the pipeline has the state it was left
\* in; requested is the last state asked for, failed the state changes that
\* returned an error in this iteration, round and others count the
\* iterations begun and the other messages seen in this one.
InitRunner ==
    /\ streams = EmptyMap
    /\ settings = InfoBag(EmptyMap)
    /\ lock = 0
    /\ pc = [t \in Threads |-> "off"]
    /\ call = [t \in Threads |-> NoCall]
    /\ calls = 0
    /\ local = [t \in Threads |-> NoStream]
    /\ todo = [t \in Threads |-> {}]
    /\ warned = [t \in Threads |-> {}]
    /\ sessions = EmptyMap
    /\ rtsp = {}
    /\ nextId = 1
    /\ nextSession = 1
    /\ held = EmptyMap
    /\ boot = NoBoot
    /\ unit = [at |-> "set_playing", state |-> "Null", requested |-> "Null",
               failed |-> {}, round |-> 0, others |-> 0]

\* pipeline.set_state(target) followed by `next`: an error is printed, and
\* ends the loop only when stops.
RunnerSetState(at, target, ok, next, stops) ==
    /\ unit.at = at
    /\ unit' = [unit EXCEPT
                  !.at = IF ~ok /\ stops THEN "exited" ELSE next,
                  !.state = IF ok THEN target ELSE @,
                  !.requested = target,
                  !.failed = IF target = "Playing"
                             THEN (IF ok THEN {} ELSE {target})
                             ELSE (IF ok THEN @ ELSE @ \cup {target}),
                  !.round = IF target = "Playing" THEN @ + 1 ELSE @,
                  !.others = IF target = "Playing" THEN 0 ELSE @]
    /\ UNCHANGED manager_vars

\* A loop that gives up when the pipeline refuses to play.
RunnerSetPlaying_Stops(ok) == RunnerSetState("set_playing", "Playing", ok, "bus", TRUE)

\* let result = pipeline.set_state(Playing); if result.is_err() { eprintln!(..) }
RunnerSetPlaying(ok) == RunnerSetState("set_playing", "Playing", ok, "bus", FALSE)

\* for msg in bus.iter_timed(CLOCK_TIME_NONE): Eos and Error break, any other
\* message is passed over.
RunnerBus(msg) ==
    /\ unit.at = "bus"
    /\ IF msg \in {"Eos", "Error"}
       THEN /\ unit.round < MaxRestarts
            /\ unit' = [unit EXCEPT !.at = "set_null"]
       ELSE /\ unit.others < MaxMessages
            /\ unit' = [unit EXCEPT !.others = @ + 1]
    /\ UNCHANGED manager_vars

\* let result = pipeline.set_state(Null); if result.is_err() { eprintln!(..) }
RunnerSetNull(ok) == RunnerSetState("set_null", "Null", ok, "sleep", FALSE)

\* std::thread::sleep(100 ms), and the loop goes round.
RunnerSleep ==
    /\ unit.at = "sleep"
    /\ unit' = [unit EXCEPT !.at = "set_playing"]
    /\ UNCHANGED manager_vars

\* A step of the runner's own thread: everything but the arrival of a
\* message on the bus.
RunnerStep ==
    \/ \E ok \in BOOLEAN : RunnerSetPlaying(ok)
    \/ \E ok \in BOOLEAN : RunnerSetNull(ok)
    \/ RunnerSleep

NextRunner ==
    \/ \E ok \in BOOLEAN : RunnerSetPlaying(ok)
    \/ \E msg \in BusMessages : RunnerBus(msg)
    \/ \E ok \in BOOLEAN : RunnerSetNull(ok)
    \/ RunnerSleep

SpecRunner == InitRunner /\ [][NextRunner]_vars

\* The runner's thread is scheduled: a statement that does not wait for the
\* bus is executed.
SpecRunnerLive == SpecRunner /\ WF_vars(RunnerStep)

(***************************************************************************)
(* Element names: the tees of a pipeline and the lookup made by unlink     *)
(***************************************************************************)
\* The values the name constants of the pipeline module may have, and the
\* pipeline ids (uuids, chosen at run time) as they are formatted.
NameValues == {"Tee", "VideoTee", "RTPTee"}

PipelineIds == {ToString(id) : id \in 1..MaxPipelineIds}

\* The constants as one build of the program has them, and the id of the
\* pipeline that is built.
TeeRequests ==
    [PIPELINE_TEE_NAME : NameValues, PIPELINE_VIDEO_TEE_NAME : NameValues,
     PIPELINE_RTP_TEE_NAME : NameValues, PIPELINE_FILTER_NAME : {"Filter"},
     pipeline_id : PipelineIds]

\* format!("{NAME}-{pipeline_id}")
SuffixedName(name, pipeline_id) == name \o "-" \o pipeline_id

\* The names FilePipeline::try_new gives to the capsfilter and the two tees
\* of its description.
FilePipelineNames(c) ==
    {SuffixedName(c.PIPELINE_FILTER_NAME, c.pipeline_id),
     SuffixedName(c.PIPELINE_VIDEO_TEE_NAME, c.pipeline_id),
     SuffixedName(c.PIPELINE_RTP_TEE_NAME, c.pipeline_id)}

\* pipeline.by_name(name): Some(element) iff an element carries the name.
by_name(names, name) == name \in names

InitTee ==
    /\ streams = EmptyMap
    /\ settings = InfoBag(EmptyMap)
    /\ lock = 0
    /\ pc = [t \in Threads |-> "off"]
    /\ call = [t \in Threads |-> NoCall]
    /\ calls = 0
    /\ local = [t \in Threads |-> NoStream]
    /\ todo = [t \in Threads |-> {}]
    /\ warned = [t \in Threads |-> {}]
    /\ sessions = EmptyMap
    /\ rtsp = {}
    /\ nextId = 1
    /\ nextSession = 1
    /\ held = EmptyMap
    /\ boot = NoBoot
    /\ \E c \in TeeRequests : unit = [req |-> c, res |-> NoArg]

\* The pipeline is built: its elements carry their names.
TeeBuild ==
    /\ unit.res = NoArg
    /\ unit.req \in TeeRequests
    /\ unit' = [unit EXCEPT !.res = [op |-> "try_new",
                                     out |-> [names |-> FilePipelineNames(unit.req)]]]
    /\ UNCHANGED manager_vars

\* RtspSink::unlink reaches pipeline.by_name(PIPELINE_TEE_NAME) on the
\* pipeline that was built.
TeeLookup ==
    /\ unit.req \in TeeRequests
    /\ unit.res # NoArg
    /\ unit.res.op = "try_new"
    /\ unit' = [unit EXCEPT !.res =
                   [op |-> "by_name",
                    out |-> [names |-> unit.res.out.names,
                             name |-> unit.req.PIPELINE_TEE_NAME,
                             found |-> by_name(unit.res.out.names,
                                               unit.req.PIPELINE_TEE_NAME)]]]
    /\ UNCHANGED manager_vars

NextTee ==
    \/ TeeBuild
    \/ TeeLookup

SpecTee == InitTee /\ [][NextTee]_vars

(***************************************************************************)
(* Properties of the Manager                                               *)
(***************************************************************************)
Registered == DOMAIN streams

\* Thread t is in the teardown part of remove_stream.
Teardown == {"rm_eos", "rm_set_null", "rm_poll", "rm_unlink", "rm_return"}

Returned(t, op) == pc[t] = "done" /\ call[t].op = op

\* C1: in every reachable state, also under concurrent add_stream_and_start
\* calls and removals, no two registered streams have the same name.
C1_UniqueNames ==
    \A a, b \in Registered : a # b => streams[a].info.name # streams[b].info.name

\* C2: in every reachable state the endpoint sets of two distinct registered
\* streams are disjoint, and an add_stream_and_start that returned Ok has
\* registered a stream whose endpoints no other registered stream shares.
C2_DisjointEndpoints ==
    /\ \A a, b \in Registered :
          a # b => streams[a].info.endpoints \cap streams[b].info.endpoints = {}
    /\ \A t \in Threads :
          (Returned(t, "add_stream_and_start") /\ call[t].res = "Ok"
              /\ call[t].id \in Registered)
          => \A b \in Registered \ {call[t].id} :
                streams[b].info.endpoints \cap streams[call[t].id].info.endpoints = {}

\* C3: in the state in which add_stream_and_start(info) returns Ok, the
\* list of streams has exactly one entry whose name is info.name.
C3_ListedOnce ==
    [][\A t \in Threads :
          (pc[t] = "as_insert" /\ pc'[t] = "done" /\ call'[t].res = "Ok")
          => Cardinality({e \in streams_information(streams') :
                            e.info.name = call[t].info.name}) = 1]_vars

\* C4: remove_stream(id) on a registered stream goes on to the teardown (and
\* so returns Ok); the same call repeated right after an Ok returns the
\* not-found error and changes neither the registry nor the settings.
C4_RemoveTwice ==
    [][\A t \in Threads :
          (pc[t] = "rm_take" /\ pc'[t] # "rm_take" /\ call[t].op = "remove_stream")
          => /\ call[t].id \in Registered
                => (pc'[t] = "rm_eos" /\ call[t].id \notin DOMAIN streams')
             /\ call[t].again
                => /\ pc'[t] = "done"
                   /\ call'[t].res = "AlreadyRemoved"
                   /\ streams' = streams
                   /\ settings' = settings]_vars

C4_Witness ==
    \E t \in Threads :
        /\ Returned(t, "remove_stream")
        /\ call[t].again
        /\ call[t].res = "AlreadyRemoved"

C6_TeardownOrder ==
    \A t \in Threads :
        /\ pc[t] \in {"rm_set_null", "rm_poll", "rm_unlink", "rm_return"}
              => local[t].eos
        /\ pc[t] \in {"rm_eos", "rm_set_null"}
              => (local[t].state # "Null" /\ DOMAIN local[t].sinks \subseteq local[t].linked)
        /\ pc[t] = "rm_poll" => DOMAIN local[t].sinks \subseteq local[t].linked
        /\ pc[t] \in {"rm_unlink", "rm_return"} => local[t].state = "Null"
        /\ pc[t] = "rm_unlink"
              => \A sid \in todo[t] : sid \in local[t].linked
        /\ pc[t] = "rm_return"
              => \A sid \in DOMAIN local[t].sinks :
                    \/ sid \in warned[t]
                    \/ sid \notin (local[t].linked \cup local[t].elements
                                     \cup local[t].tee_pads)

\* A teardown of two sinks where one unlink failed and the other sink was
\* unlinked all the same.
C6_Witness ==
    \E t \in Threads :
        /\ pc[t] = "rm_return"
        /\ warned[t] # {}
        /\ \E sid \in DOMAIN local[t].sinks \ warned[t] :
              sid \notin (local[t].linked \cup local[t].elements \cup local[t].tee_pads)

SessionsOf(p) == {sid \in DOMAIN sessions : sessions[sid].producer = p}

\* C7: when remove_stream returns, every session of the removed stream has
\* been sent EndSession and is Closed, and the stream is out of the registry,
\* so none of its sessions can be addressed any more.
C7_SessionsEnded ==
    \A t \in Threads :
        pc[t] = "rm_return"
        => /\ call[t].id \notin Registered
           /\ \A sid \in SessionsOf(call[t].id) :
                 /\ sessions[sid].state = "Closed"
                 /\ sessions[sid].outbox = <<"EndSession">>

\* A stream removed while one of its sessions was live.
C7_Witness ==
    \E t \in Threads :
        /\ pc[t] = "rm_return"
        /\ \E sid \in SessionsOf(call[t].id) :
              /\ sid \in DOMAIN local[t].sinks
              /\ sessions[sid].state = "Closed"

\* No caller is tearing down stream p.
Quiet(p) == \A t \in Threads : pc[t] \in Teardown => local[t].id # p

WebRTCSinkIn(p, sid) ==
    /\ p \in Registered
    /\ sid \in DOMAIN streams[p].sinks
    /\ streams[p].sinks[sid].kind = "webrtc"

SinksOf(reg) == [id \in DOMAIN reg |-> reg[id].sinks]

\* C9: add_session returns Ok only for a registered producer, and then
\* exactly one sink, of the WebRTC variant and keyed by the returned session
\* id, is new in that stream's sinks map and no other stream changes; when it
\* returns an error no sinks map changes.
C9_AddSession ==
    [][\A t \in Threads :
          (pc[t] = "ss_body" /\ pc'[t] = "done")
          => LET p == call[t].id
                 sid == call[t].sid
             IN /\ DOMAIN streams' = DOMAIN streams
                /\ call'[t].res = "Ok"
                   => /\ p \in Registered
                      /\ sid \notin DOMAIN streams[p].sinks
                      /\ DOMAIN streams'[p].sinks = DOMAIN streams[p].sinks \cup {sid}
                      /\ streams'[p].sinks[sid].kind = "webrtc"
                      /\ \A x \in DOMAIN streams[p].sinks :
                            streams'[p].sinks[x] = streams[p].sinks[x]
                      /\ \A q \in Registered \ {p} : streams'[q] = streams[q]
                /\ call'[t].res # "Ok" => SinksOf(streams') = SinksOf(streams)]_vars

C9_Witness ==
    \E t \in Threads :
        /\ Returned(t, "add_session")
        /\ call[t].res = "Ok"
        /\ WebRTCSinkIn(call[t].id, call[t].sid)

\* C10 as claimed: a remove_session repeated after a successful one returns
\* Ok.
C10_RepeatSucceeds ==
    \A t \in Threads :
        (Returned(t, "remove_session") /\ call[t].again) => call[t].res = "Ok"

\* C10 as the code has it: a remove_session repeated after a successful one
\* returns an error (the session, or its producer, is not found) and changes
\* nothing.
C10_RepeatFails ==
    [][\A t \in Threads :
          (pc[t] = "rs_body" /\ pc'[t] = "done" /\ call[t].again)
          => /\ call'[t].res \in {"SessionNotFound", "ProducerNotFound"}
             /\ UNCHANGED <<streams, settings, sessions, rtsp>>]_vars

C10_Witness ==
    \E t \in Threads :
        /\ Returned(t, "remove_session")
        /\ call[t].again
        /\ call[t].res = "SessionNotFound"

(***************************************************************************)
(* Properties of the signalling                                            *)
(***************************************************************************)
\* C11: handle_sdp and handle_ice act only on a WebRTC sink: when the
\* producer is unknown, the session id is not in the producer's sinks map,
\* or the sink under that id is a UDP or RTSP sink, the call returns the
\* matching error and no stream, sink, session or setting changes.
C11_OnlyWebRTC ==
    [][\A t \in Threads :
          (pc[t] \in {"sdp_body", "ice_body"} /\ pc'[t] = "done")
          => LET p == call[t].id
                 sid == call[t].sid
             IN /\ p \notin Registered
                   => call'[t].res = "ProducerNotFound"
                /\ (p \in Registered /\ sid \notin DOMAIN streams[p].sinks)
                   => call'[t].res = "SessionNotFound"
                /\ (p \in Registered /\ sid \in DOMAIN streams[p].sinks
                      /\ streams[p].sinks[sid].kind \in {"udp", "rtsp"})
                   => call'[t].res = "NotWebRTC"
                /\ ~WebRTCSinkIn(p, sid)
                   => UNCHANGED <<streams, settings, sessions, rtsp>>]_vars

\* A handle_sdp or handle_ice addressed to the UDP or RTSP sink of a stream.
C11_Witness ==
    \E t \in Threads :
        /\ pc[t] = "done"
        /\ call[t].op \in {"handle_sdp", "handle_ice"}
        /\ call[t].res = "NotWebRTC"
        /\ call[t].id \in Registered
        /\ call[t].sid \in DOMAIN streams[call[t].id].sinks

\* C12: a handle_sdp that succeeds leaves the session with a remote
\* description, and a handle_ice on a session with a remote description
\* succeeds; on a fresh session (no description handled yet) handle_ice
\* returns StateError.
C12_SdpThenIce ==
    [][\A t \in Threads :
          LET p == call[t].id
              sid == call[t].sid
          IN /\ (pc[t] = "sdp_body" /\ pc'[t] = "done" /\ call'[t].res = "Ok")
                => sessions'[sid].state \in RemoteDescribed
             /\ (pc[t] = "ice_body" /\ pc'[t] = "done" /\ WebRTCSinkIn(p, sid))
                => /\ sessions[sid].state \in RemoteDescribed
                      => call'[t].res = "Ok"
                   /\ sessions[sid].state \in {"New", "LocalOffered"}
                      => call'[t].res = "StateError"]_vars

\* A handle_ice that succeeded on a session whose remote description had
\* been handled.
C12_Witness ==
    \E t \in Threads :
        /\ Returned(t, "handle_ice")
        /\ call[t].res = "Ok"
        /\ call[t].sid \in DOMAIN sessions
        /\ sessions[call[t].sid].state \in RemoteDescribed

\* C13: a session is New after add_session, becomes LocalOffered from New
\* only, and handle_sdp with an answer moves a LocalOffered session to
\* Answered; a description that does not match the state of the session is
\* rejected as out of order and leaves the state unchanged.
C13_StateMachine ==
    [][/\ \A t \in Threads :
            LET p == call[t].id
                sid == call[t].sid
            IN /\ (pc[t] = "ss_body" /\ pc'[t] = "done" /\ call'[t].res = "Ok")
                  => sessions'[sid].state = "New"
               /\ (pc[t] = "sdp_body" /\ pc'[t] = "done" /\ WebRTCSinkIn(p, sid)
                     /\ call[t].arg.parses)
                  => LET st == sessions[sid].state
                         k == call[t].arg.kind
                     IN IF k = "answer" /\ st = "LocalOffered"
                        THEN call'[t].res = "Ok" /\ sessions'[sid].state = "Answered"
                        ELSE IF k = "offer" /\ st = "New"
                        THEN call'[t].res = "Ok" /\ sessions'[sid].state = "RemoteOffered"
                        ELSE call'[t].res = "OutOfOrder" /\ sessions' = sessions
       /\ \A sid \in DOMAIN sessions' :
            (sessions'[sid].state = "LocalOffered" /\ sid \in DOMAIN sessions
               /\ sessions[sid].state # "LocalOffered")
            => sessions[sid].state = "New"]_vars

\* An answer handled on a session whose local offer had been emitted.
C13_Witness ==
    \E t \in Threads :
        /\ Returned(t, "handle_sdp")
        /\ call[t].res = "Ok"
        /\ call[t].arg.kind = "answer"
        /\ call[t].sid \in DOMAIN sessions
        /\ sessions[call[t].sid].state = "Answered"

(***************************************************************************)
(* Properties of the sinks                                                 *)
(***************************************************************************)
\* The sink object with id sid: held by the caller or in the sinks map.
BenchSink(t, sid) == IF sid \in DOMAIN held THEN held[sid] ELSE local[t].sinks[sid]

\* C14: adding a sink is atomic: when add_sink fails, the sinks map is
\* unchanged, the sink's elements are not in the pipeline, and the tee pad
\* requested for it is released.
C14_AddSinkAtomic ==
    [][\A t \in Threads :
          (pc[t] = "bench" /\ call'[t].op = "link" /\ call'[t].res # "Ok")
          => LET sid == call'[t].sid
             IN /\ local'[t].sinks = local[t].sinks
                /\ sid \notin local'[t].elements
                /\ sid \notin local'[t].linked
                /\ sid \notin local'[t].tee_pads]_vars

\* C15: in every reachable state a sink has a tee source pad stored iff it
\* is linked into the pipeline, and it is linked iff it is in the sinks map.
C15_PadIffLinkedIffInMap ==
    \A t \in Threads :
        pc[t] = "bench"
        => \A sid \in BenchSinks :
              /\ BenchSink(t, sid).tee_src_pad <=> sid \in local[t].linked
              /\ sid \in local[t].linked <=> sid \in DOMAIN local[t].sinks

\* C16: link on a sink that already holds a tee pad fails with the
\* already-linked error and changes nothing: the sink keeps what it stored,
\* the pipeline gets no element and the RTSP server is not touched.
C16_LinkTwice ==
    [][\A t \in Threads :
          (pc[t] = "bench" /\ call'[t].op = "link"
             /\ call'[t].sid \in DOMAIN held /\ held[call'[t].sid].tee_src_pad)
          => /\ call'[t].res = "AlreadyLinked"
             /\ UNCHANGED <<held, local, rtsp, sessions>>]_vars

\* An RTSP sink that was offered a second pad.
C16_Witness ==
    \E t \in Threads :
        /\ pc[t] = "bench"
        /\ call[t].op = "link"
        /\ call[t].res = "AlreadyLinked"
        /\ call[t].sid \in DOMAIN held
        /\ held[call[t].sid].kind = "rtsp"

C18_NoPadAfterUnlink ==
    \A t \in Threads :
        (pc[t] = "bench" /\ call[t].op \in {"unlink", "remove_sink"}
           /\ call[t].res = "Ok")
        => ~held[call[t].sid].tee_src_pad

\* C19: a successful link of an RTSP sink has its path served, and every
\* unlink of a linked RTSP sink stops serving the path, whatever step of the
\* unlink fails.
C19_ServedWhileLinked ==
    [][\A t \in Threads :
          /\ (pc'[t] = "as_check" /\ pc[t] # "as_check")
             => \A sid \in DOMAIN local'[t].sinks :
                   local'[t].sinks[sid].kind = "rtsp"
                   => local'[t].sinks[sid].path \in rtsp'
          /\ (pc[t] = "rm_unlink" /\ todo'[t] # todo[t])
             => \A sid \in todo[t] \ todo'[t] :
                   (local[t].sinks[sid].kind = "rtsp" /\ sid \in local[t].linked)
                   => local[t].sinks[sid].path \notin rtsp']_vars


(***************************************************************************)
(* Properties of the settings store                                        *)
(***************************************************************************)
\* C20: once start_default has cleared the registry, and from then on after
\* every successful add and remove, the stream set last handed to the
\* settings store is the information of exactly the registered streams.
C20_SettingsMatchRegistry ==
    (\A t \in Threads : pc[t] # "sd_clear") => settings = InfoBag(streams)


(***************************************************************************)
(* Properties of start_default                                             *)
(***************************************************************************)
\* The informations of the registered streams.
RegisteredInfos == {streams[id].info : id \in DOMAIN streams}

\* C21: the streams start_default goes through are persisted ones; between
\* two streams of its loop, and so when the loop is over, it has logged an
\* error for every stream taken up whose add failed, and the registry holds
\* each of the other streams taken up exactly once; a failed add leaves the
\* remaining streams in the loop.
C21_SurvivorsAdded ==
    \A t \in Threads :
        (boot.active /\ pc[t] = "sd_loop")
        => /\ boot.pending = boot.valid => boot.valid \subseteq settings_streams(settings)
           /\ InfoBag(streams) = [i \in (boot.valid \ boot.pending) \ boot.failed |-> 1]

\* The loop is over, one stream could not be added and another one was.
C21_Witness ==
    /\ boot.active
    /\ pc[1] = "sd_loop"
    /\ boot.pending = {}
    /\ boot.failed # {}
    /\ Cardinality(boot.valid) = 2
    /\ DOMAIN streams # {}


\* The loop of start_default is over.
Reloaded(t) == boot.active /\ pc[t] = "sd_loop" /\ boot.pending = {}

Answered(op) == unit.res # NoArg /\ unit.res.op = op

\* The schemes of the endpoints of a request.
SchemesOf(info) == {info.endpoints[i].scheme : i \in 1..Len(info.endpoints)}

\* C23: stream_backend::new returns an error, and has made no stream, for a
\* request with no endpoint, with endpoints of more than one scheme, with
\* rtsp and more than one endpoint, with a udp endpoint lacking its host or
\* its port, with a scheme other than rtsp, udp and udp265, or with an
\* Unknown encode.
C23_Rejects ==
    Answered("new") =>
        LET info == unit.req
            endpoints == info.endpoints
            invalid ==
                \/ endpoints = <<>>
                \/ Cardinality(SchemesOf(info)) > 1
                \/ "rtsp" \in SchemesOf(info) /\ Len(endpoints) > 1
                \/ \E i \in 1..Len(endpoints) :
                      /\ endpoints[i].scheme = "udp"
                      /\ endpoints[i].host = NoHost \/ endpoints[i].port = NoPort
                \/ SchemesOf(info) \ {"rtsp", "udp", "udp265"} # {}
                \/ info.encode = "UNKNOWN"
        IN invalid => ~unit.res.out.ok /\ ~unit.res.out.created

\* A request with H264 and two udp endpoints, one without its port, was
\* rejected for that.
C23_Witness ==
    /\ Answered("new")
    /\ unit.req.encode = "H264"
    /\ Len(unit.req.endpoints) = 2
    /\ SchemesOf(unit.req) = {"udp"}
    /\ unit.res.out.err = "UdpWithoutHostOrPort"
    /\ ~unit.res.out.created


\* C24: the checks of stream_backend::new let a request with udp265
\* endpoints and an H265 encode through, and stop udp endpoints with H265
\* and udp265 endpoints with H264.
C24_EncodeOfScheme ==
    Answered("new") =>
        LET info == unit.req IN
        /\ (SchemesOf(info) = {"udp265"} /\ info.encode = "H265")
              => Checks(info) = "Ok"
        /\ (SchemesOf(info) = {"udp"} /\ info.encode = "H265")
              => Checks(info) # "Ok" /\ ~unit.res.out.ok
        /\ (SchemesOf(info) = {"udp265"} /\ info.encode = "H264")
              => Checks(info) # "Ok" /\ ~unit.res.out.ok


(***************************************************************************)
(* Properties of FilePipeline                                              *)
(***************************************************************************)
\* C25: FilePipeline::try_new returns an error, and launches no pipeline,
\* for every configuration whose width is zero or odd or whose height is
\* odd.
C25_EvenDimensions ==
    Answered("try_new") =>
        LET info == unit.req IN
        (info.width = 0 \/ info.width % 2 # 0 \/ info.height % 2 # 0)
        => ~unit.res.out.ok /\ ~unit.res.out.launched


(***************************************************************************)
(* Properties of add_stream_and_start                                      *)
(***************************************************************************)
\* Thread t takes a step of add_stream_and_start that is not its return
\* with Ok: the return with the error of try_new, the conflict check, the
\* wait for the Mutex, the return with an error of Manager::add_stream.
AddStepNotOk(t) ==
    \/ /\ pc[t] \in {"idle", "done"}
       /\ calls' = calls - 1
       /\ lock' = 0
       /\ pc'[t] = "done"
       /\ call'[t].op = "add_stream_and_start"
       /\ call'[t].res = "BuildError"
    \/ /\ pc[t] \in {"idle", "done"}
       /\ pc'[t] = "as_check"
    \/ /\ pc[t] \in {"as_check", "as_lock2", "as_insert"}
       /\ pc'[t] # pc[t]
       /\ ~(pc'[t] = "done" /\ call'[t].res = "Ok")

\* C26: no step of an add_stream_and_start other than its return with Ok
\* changes the registry or the settings, so a call that returns an error
\* (BuildError, Conflict, FailedAdding) leaves both as they were; and a
\* call that returns hands its caller Ok or one of these errors.
C26_FailedAddChangesNothing ==
    [][\A t \in Threads :
          /\ AddStepNotOk(t) => UNCHANGED <<streams, settings>>
          /\ (pc[t] \in {"as_check", "as_insert"} /\ pc'[t] = "done")
                => call'[t].res \in {"Ok", "Conflict", "FailedAdding"}]_vars

\* An add_stream_and_start returned Conflict while a stream was registered.
C26_Witness ==
    \E t \in Threads :
        /\ Returned(t, "add_stream_and_start")
        /\ call[t].res = "Conflict"
        /\ DOMAIN streams # {}
        /\ settings = InfoBag(streams)


(***************************************************************************)
(* Properties of the ONVIF discovery                                       *)
(***************************************************************************)
\* C27: a discovery round that returned an error does not end the discovery
\* loop nor its thread: the thread is running after every failure.
C27_NeverFatal == unit.failures > 0 => unit.thread = "running"


(***************************************************************************)
(* Properties of the tee pads                                              *)
(***************************************************************************)
\* C28: a step that requests or releases a source pad of the tee of a
\* pipeline, be the pipeline in the registry or in the hands of a
\* remove_stream, is taken by a thread that holds the MANAGER Mutex: for a
\* registered stream the Mutex is held, for the stream a thread has taken
\* out that thread holds it.
C28_PadsUnderLock ==
    [][/\ \A id \in DOMAIN streams \cap DOMAIN streams' :
             streams'[id].tee_pads # streams[id].tee_pads => lock # 0
       /\ \A t \in Threads :
             (/\ local[t].id # 0
              /\ local'[t].id = local[t].id
              /\ local'[t].tee_pads # local[t].tee_pads) => lock = t]_vars


(***************************************************************************)
(* Properties of the UDP pipeline description                              *)
(***************************************************************************)
\* host:port of the first n endpoints, in their order, separated by commas.
RECURSIVE ClientsUpTo(_, _)
ClientsUpTo(endpoints, n) ==
    IF n = 0 THEN ""
    ELSE LET client == endpoints[n].host \o ":" \o ToString(endpoints[n].port) IN
         IF n = 1 THEN client ELSE ClientsUpTo(endpoints, n - 1) \o "," \o client

\* The caps fields of a configuration: width, height, and the framerate as
\* denominator/numerator of the frame interval.
CapsOf(info) ==
    ",width=" \o ToString(info.width) \o ",height=" \o ToString(info.height)
    \o ",framerate=" \o ToString(info.frame_interval.denominator) \o "/"
    \o ToString(info.frame_interval.numerator)

\* The request of tests::test_udp and the description the test expects.
TestUdpRequest ==
    [endpoints |-> <<[scheme |-> "udp", host |-> "192.168.0.1", port |-> 42]>>,
     encode |-> "H264", source |-> "Local", width |-> 1080, height |-> 720,
     frame_interval |-> [numerator |-> 1, denominator |-> 30]]

TestUdpPipeline ==
    "v4l2src device=/dev/video42 ! video/x-h264,width=1080,height=720,framerate=30/1 ! h264parse ! queue ! rtph264pay config-interval=10 pt=96 ! multiudpsink clients=192.168.0.1:42"

\* C29: when the backend makes a udp stream of a request (the encode is
\* H264 then), the description ends with a multiudpsink whose clients are
\* host:port of every endpoint, in endpoint order, joined by commas; it
\* begins with the source followed by caps that carry the width, the
\* height and framerate=denominator/numerator of the request; and the
\* request of the unit test yields the description the test expects.
C29_UdpDescription ==
    (unit.res # NoArg /\ unit.res.op \in {"new", "create_stream"} /\ unit.res.out.ok)
    => LET info == unit.req
           out == unit.res.out
       IN /\ info.encode = "H264"
          /\ out.udp_sink = " ! multiudpsink clients="
                                \o ClientsUpTo(info.endpoints, Len(info.endpoints))
          /\ \/ out.video_format = "v4l2src device=" \o DevicePath
                                        \o " ! video/x-h264" \o CapsOf(info)
             \/ out.video_format = "videotestsrc pattern=" \o Pattern
                                        \o " ! video/x-raw" \o CapsOf(info)
                                        \o " ! videoconvert !  x264enc bitrate=5000 ! video/x-h264, profile=baseline"
          /\ out.pipeline = out.video_format
                                \o " ! h264parse ! queue ! rtph264pay config-interval=10 pt=96"
                                \o out.udp_sink
          /\ info = TestUdpRequest => out.pipeline = TestUdpPipeline

\* A request with two udp endpoints and a frame interval of 2/15 went
\* through new and became a stream.
C29_Witness ==
    /\ Answered("new")
    /\ unit.res.out.ok
    /\ Len(unit.req.endpoints) = 2
    /\ unit.req.endpoints[1].port = 5600
    /\ unit.req.endpoints[2].port = 42
    /\ unit.req.frame_interval.numerator = 2
    /\ unit.res.out.udp_sink = " ! multiudpsink clients=192.168.0.1:5600,192.168.0.1:42"


(***************************************************************************)
(* Properties of the end of remove_stream                                  *)
(***************************************************************************)
\* C30: remove_stream returns from its teardown only with Ok and only in a
\* state where its pipeline is Null; and every remove_stream that holds the
\* Mutex for a registered stream returns, whether set_state(Null) took
\* effect at once or not (its error is only logged).
C30_RemoveReturns ==
    /\ [][\A t \in Threads :
             (pc[t] \in Teardown /\ pc'[t] = "done")
             => local[t].state = "Null" /\ call'[t].res = "Ok"]_vars
    /\ \A t \in Threads :
          (pc[t] = "rm_take" /\ call[t].id \in DOMAIN streams)
          ~> (pc[t] = "done" /\ call[t].res = "Ok")

\* A remove_stream waits in its poll loop: set_state(Null) has returned and
\* the pipeline is not Null yet.
C30_Witness ==
    \E t \in Threads :
        /\ pc[t] = "rm_poll"
        /\ call[t].op \in {"remove_stream", "remove_stream_by_name"}
        /\ local[t].eos
        /\ local[t].state # "Null"


(***************************************************************************)
(* Properties of a failed link                                             *)
(***************************************************************************)
\* C31: after a link that returned an error of one of its steps (adding the
\* elements, linking the pad, registering or starting the path on the RTSP
\* server), the sink stores no tee pad.
C31_NoPadAfterFailedLink ==
    \A t \in Threads :
        (pc[t] = "bench" /\ call[t].op = "link"
           /\ call[t].res \in {"AddFailed", "LinkFailed", "ServerError"})
        => ~held[call[t].sid].tee_src_pad


(***************************************************************************)
(* Properties of the element names                                         *)
(***************************************************************************)
\* C32: the name unlink looks the tee up by is the name of a tee of the
\* pipeline that was built (a tee name followed by the pipeline id), so the
\* lookup finds it.
C32_TeeFound ==
    Answered("by_name") =>
        /\ unit.res.out.found
        /\ unit.res.out.name
              \in {SuffixedName(unit.req.PIPELINE_VIDEO_TEE_NAME, unit.req.pipeline_id),
                   SuffixedName(unit.req.PIPELINE_RTP_TEE_NAME, unit.req.pipeline_id)}


\* C33: Manager::add_stream called with a stream whose id is registered
\* returns an error and changes neither the registry (the stream registered
\* under the id stays the one registered) nor the persisted settings.
C33_DuplicateLeavesRegistry ==
    [][\A t \in Threads :
          (pc[t] = "as_insert" /\ pc'[t] = "done" /\ local[t].id \in DOMAIN streams)
          => /\ call'[t].res = "FailedAdding"
             /\ streams' = streams
             /\ settings' = settings]_vars


\* The steps of remove_stream after the stream was taken out of the registry:
\* a call that is there performs the teardown and returns Ok.
TeardownPcs == {"rm_eos", "rm_set_null", "rm_poll", "rm_unlink", "rm_return"}

\* C34: of two remove_stream_by_name calls under way with the same name, at
\* most one takes a stream out and tears it down (and so returns Ok); the
\* other returns an error, and no stream is torn down by both.
C34_OneRemovalPerName ==
    \A t, u \in Threads :
        (/\ t # u
         /\ call[t].op = "remove_stream_by_name"
         /\ call[u].op = "remove_stream_by_name"
         /\ call[t].info.name = call[u].info.name
         /\ pc[t] \in TeardownPcs)
        => pc[u] \notin TeardownPcs


\* C35: remove_stream takes the stream out of the registry and updates the
\* settings under the Mutex, drops the Mutex, and holds it in none of the
\* steps that follow, the wait for Null included.
C35_PollsUnlocked ==
    [][\A t \in Threads :
          /\ (pc[t] = "rm_take" /\ pc'[t] = "rm_eos")
             => /\ lock = t
                /\ lock' = 0
                /\ call[t].id \notin DOMAIN streams'
                /\ settings' = update_settings(streams')
          /\ pc'[t] \in TeardownPcs => lock' # t]_vars

\* A teardown is still polling its pipeline while another caller holds the
\* Mutex, in the middle of streams(), of add_stream_and_start or of a
\* session operation.
C35_Witness ==
    \E t, u \in Threads :
        /\ t # u
        /\ pc[t] = "rm_poll"
        /\ local[t].state # "Null"
        /\ lock = u
        /\ pc[u] \in {"ls_body", "as_check", "as_insert"}


SessionPcs == {"ss_body", "rs_body", "sdp_body", "ice_body"}

\* C36: once a teardown has taken a stream out of the registry, a session
\* operation for that producer that runs under the Mutex returns producer
\* not found and changes neither the pipeline being torn down and its sinks
\* nor the registry, the sessions or the RTSP server; no sink is added to a
\* pipeline under teardown.
C36_NoSinkAfterTeardownBegan ==
    [][\A t \in Threads :
          pc[t] \in TeardownPcs =>
             /\ pc'[t] \in TeardownPcs
                   => DOMAIN local'[t].sinks \subseteq DOMAIN local[t].sinks
             /\ \A u \in Threads \ {t} :
                   (/\ pc[u] \in SessionPcs
                    /\ call[u].id = local[t].id
                    /\ pc'[u] = "done")
                   => /\ call'[u].res = "ProducerNotFound"
                      /\ local'[t] = local[t]
                      /\ streams' = streams
                      /\ sessions' = sessions
                      /\ rtsp' = rtsp]_vars

\* A session operation for the producer under teardown has returned producer
\* not found while the teardown is still under way.
C36_Witness ==
    \E t, u \in Threads :
        /\ t # u
        /\ pc[t] \in TeardownPcs
        /\ pc[u] = "done"
        /\ call[u].op \in {"add_session", "remove_session", "handle_sdp", "handle_ice"}
        /\ call[u].id = local[t].id
        /\ call[u].res = "ProducerNotFound"
        /\ call[t].op = "remove_stream"
        /\ call[u].again = FALSE


\* C37: a registered stream leaves the registry only in the step of
\* remove_stream that takes it out for its teardown, the clearing of
\* start_default included; and when that teardown returns, the pipeline is
\* Null and no sink of the stream keeps a tee pad or a served RTSP path.
C37_LeavesThroughTeardown ==
    [][/\ \A id \in DOMAIN streams \ DOMAIN streams' :
             \E t \in Threads :
                /\ pc[t] = "rm_take"
                /\ pc'[t] = "rm_eos"
                /\ local'[t].id = id
       /\ \A t \in Threads :
             (pc[t] = "rm_return" /\ pc'[t] = "done")
             => /\ local[t].state = "Null"
                /\ \A sid \in DOMAIN local[t].sinks :
                      /\ ~local[t].sinks[sid].tee_src_pad
                      /\ sid \notin local[t].tee_pads
                      /\ local[t].sinks[sid].kind = "rtsp"
                            => local[t].sinks[sid].path \notin rtsp]_vars


(***************************************************************************)
(* Properties of the schemes the backend builds                            *)
(***************************************************************************)
\* C38: stream_backend::new returns a stream only for a request whose
\* endpoints are not empty and all udp with host and port, whose encode is
\* H264 and whose source is a Local device or a Gst Fake pattern; a request
\* with an rtsp or udp265 endpoint ends in an error and makes no stream.
C38_OnlyUdpIsBuilt ==
    Answered("new") =>
        LET info == unit.req
            endpoints == info.endpoints
        IN /\ unit.res.out.ok =>
                 /\ endpoints # <<>>
                 /\ SchemesOf(info) = {"udp"}
                 /\ \A i \in 1..Len(endpoints) :
                       endpoints[i].host # NoHost /\ endpoints[i].port # NoPort
                 /\ info.encode = "H264"
                 /\ info.source \in {"Local", "GstFake"}
                 /\ unit.res.out.created
           /\ SchemesOf(info) \cap {"rtsp", "udp265"} # {} =>
                 /\ ~unit.res.out.ok
                 /\ ~unit.res.out.created

\* An rtsp request that passes the three checks was answered with
\* "Unsupported scheme".
C38_Witness ==
    /\ Answered("new")
    /\ SchemesOf(unit.req) = {"rtsp"}
    /\ Checks(unit.req) = "Ok"
    /\ unit.res.out.err = "UnsupportedScheme"
    /\ ~unit.res.out.ok


(***************************************************************************)
(* Properties of the PipelineRunner                                        *)
(***************************************************************************)
\* C39: the loop of the PipelineRunner never ends. Each iteration asks for
\* Playing and then reads the bus, whether or not the state change failed;
\* end-of-stream and an error leave the bus for set_state(Null), any other
\* message changes nothing of the pipeline; after set_state(Null), failed or
\* not, the loop sleeps and asks for Playing again.
C39_RestartsForever ==
    /\ [](unit.at \in {"set_playing", "bus", "set_null", "sleep"})
    /\ [][/\ unit.at = "set_playing"
             => unit'.at = "bus" /\ unit'.requested = "Playing"
          /\ unit.at = "bus"
             => /\ unit'.state = unit.state
                /\ unit'.requested = unit.requested
                /\ unit'.at \in {"bus", "set_null"}
          /\ unit.at = "set_null"
             => unit'.at = "sleep" /\ unit'.requested = "Null"
          /\ unit.at = "sleep"
             => unit'.at = "set_playing" /\ unit'.state = unit.state]_vars
    /\ (unit.at = "set_null") ~> (unit.at = "bus" /\ unit.requested = "Playing")

\* The pipeline was restarted although set_state(Null) and the
\* set_state(Playing) after it both failed.
C39_Witness ==
    /\ unit.at = "bus"
    /\ unit.round = 2
    /\ unit.requested = "Playing"
    /\ unit.failed = {"Playing"}
    /\ unit.state = "Playing"
    /\ unit.others > 0

====
